---- MODULE Spec2Model ----
(***************************************************************************)
(* Context-aware urgency scoring of German official letters.               *)
(*                                                                         *)
(* Texts are TLA+ strings and every operator works on characters the way   *)
(* the TypeScript code does: substring search, whitespace tokenisation,    *)
(* regular expressions with \b and \s+, the +-5 token window, the subject  *)
(* line handler, the match collector, the score aggregator and the         *)
(* highlight projector.                                                    *)
(***************************************************************************)
EXTENDS Integers, Sequences, FiniteSets, TLC

(***************************************************************************)
(* String primitives (JavaScript String / RegExp semantics).               *)
(* Offsets handed to or returned by IndexOf, Substring and the highlight   *)
(* spans are 0-based as in JavaScript; Ch and StartsAt are 1-based.        *)
(***************************************************************************)
Min(S) == CHOOSE x \in S : \A y \in S : x <= y

Max(S) == CHOOSE x \in S : \A y \in S : x >= y

\* the least element of S, default when S is empty (`first hit or -1')
MinOr(S, default) == IF S = {} THEN default ELSE Min(S)

Ch(s, i) == SubSeq(s, i, i)

CharsOf(s) == { Ch(s, i) : i \in 1..Len(s) }

\* \s of the regular expressions and of String.trim
SpaceChars == {" ", "\n", "\t", "\r"}

IsSpace(c) == c \in SpaceChars

\* \w of the regular expressions: ASCII only, so an umlaut is a non-word
\* character and \b holds between it and a neighbouring ASCII letter
WordChars == CharsOf("abcdefghijklmnopqrstuvwxyzABCDEFGHIJKLMNOPQRSTUVWXYZ0123456789_")

UpperChars == "ABCDEFGHIJKLMNOPQRSTUVWXYZÄÖÜ"

LowerChars == "abcdefghijklmnopqrstuvwxyzäöü"

UpperSet == CharsOf(UpperChars)

LowerOf == [ c \in UpperSet |-> Ch(LowerChars, CHOOSE i \in 1..Len(UpperChars) : Ch(UpperChars, i) = c) ]

\* the characters lo..hi of s in lower case (halving keeps the recursion shallow)
RECURSIVE LowerRange(_, _, _)
LowerRange(s, lo, hi) ==
   IF lo > hi THEN ""
   ELSE IF lo = hi THEN (IF Ch(s, lo) \in UpperSet THEN LowerOf[Ch(s, lo)] ELSE Ch(s, lo))
   ELSE LET mid == (lo + hi) \div 2
        IN  LowerRange(s, lo, mid) \o LowerRange(s, mid + 1, hi)

toLowerCase(s) ==
   IF \A i \in 1..Len(s) : Ch(s, i) \notin UpperSet THEN s ELSE LowerRange(s, 1, Len(s))

\* lit occurs in s at the 1-based position i
StartsAt(s, i, lit) ==
   i >= 1 /\ i + Len(lit) - 1 <= Len(s) /\ SubSeq(s, i, i + Len(lit) - 1) = lit

\* String.prototype.indexOf(lit, from): 0-based offset or -1
IndexOf(s, lit, from) ==
   MinOr({ i \in from..(Len(s) - Len(lit)) : SubSeq(s, i + 1, i + Len(lit)) = lit }, -1)

\* String.prototype.includes
Includes(s, lit) == IndexOf(s, lit, 0) # -1

\* String.prototype.substring(a, b) for 0 <= a, with b clamped to the length
Substring(s, a, b) ==
   LET hi == IF b > Len(s) THEN Len(s) ELSE IF b < 0 THEN 0 ELSE b
       lo == IF a > Len(s) THEN Len(s) ELSE IF a < 0 THEN 0 ELSE a
   IN  IF lo <= hi THEN SubSeq(s, lo + 1, hi) ELSE SubSeq(s, hi + 1, lo)

\* 1-based index of the first (non-)whitespace character at or after i,
\* Len(s) + 1 when there is none
NextSpace(s, i) == MinOr({ j \in i..Len(s) : IsSpace(Ch(s, j)) }, Len(s) + 1)

NextNonSpace(s, i) == MinOr({ j \in i..Len(s) : ~IsSpace(Ch(s, j)) }, Len(s) + 1)

\* String.prototype.trim
trim(s) ==
   IF \A j \in 1..Len(s) : IsSpace(Ch(s, j)) THEN ""
   ELSE SubSeq(s, NextNonSpace(s, 1), Max({ j \in 1..Len(s) : ~IsSpace(Ch(s, j)) }))

\* s.split(/\s+/).filter(w => w.length > 0): the tokens from the 1-based
\* position i on; TokensAt is given the start j of the next token
RECURSIVE SplitWhitespace(_, _)
TokensAt(s, j) ==
   IF j > Len(s) THEN << >>
   ELSE << SubSeq(s, j, NextSpace(s, j) - 1) >> \o SplitWhitespace(s, NextSpace(s, j))

SplitWhitespace(s, i) == TokensAt(s, NextNonSpace(s, i))

\* tokens.slice(lo, hi).join(" ") with 0-based lo (inclusive), hi (exclusive)
RECURSIVE JoinSlice(_, _, _)
JoinSlice(tokens, lo, hi) ==
   IF lo >= hi THEN ""
   ELSE IF lo + 1 = hi THEN tokens[lo + 1]
   ELSE tokens[lo + 1] \o " " \o JoinSlice(tokens, lo + 1, hi)

\* \b at the boundary before the 1-based position p
WordBoundary(s, p) ==
   LET before == p - 1 >= 1 /\ p - 1 <= Len(s) /\ Ch(s, p - 1) \in WordChars
       after  == p >= 1 /\ p <= Len(s) /\ Ch(s, p) \in WordChars
   IN  before # after

(***************************************************************************)
(* A pattern of the pattern tables is /\bW1\s+W2...\s+Wn\b/i: `words' is   *)
(* the sequence W1..Wn, each Wi the set of lower-case literals its         *)
(* character classes and optional letters expand to.  WordsMatchAt returns *)
(* whether W_k.. match from the 1-based position i of the lowered text.    *)
(***************************************************************************)
RECURSIVE WordsMatchAt(_, _, _, _)
WordsMatchAt(s, i, words, k) ==
   \E lit \in words[k] :
      /\ StartsAt(s, i, lit)
      /\ LET e == i + Len(lit)
         IN  IF k = Len(words) THEN WordBoundary(s, e)
             ELSE LET n == NextNonSpace(s, e)
                  IN  n > e /\ WordsMatchAt(s, n, words, k + 1)

\* pattern.test(s) for a pattern without the g flag (no lastIndex state);
\* every pattern has the i flag, which the callers model by handing over
\* the lowered text
RegexTest(words, s) ==
   \E i \in 1..Len(s) : WordsMatchAt(s, i, words, 1) /\ WordBoundary(s, i)

(***************************************************************************)
(* Keyword dictionary, spelled as the source file spells it: the keywords  *)
(* with an umlaut are stored there as the byte-garbled sequences           *)
(* U+221A U+00A7 (for a-umlaut), U+221A U+2202 (o-umlaut), U+221A U+00BA   *)
(* (u-umlaut) and U+221A U+00FC (sharp s).  U+221A is written here as the  *)
(* currency sign and U+2202 as the pilcrow, two characters that like them  *)
(* are neither letters nor \w characters and have no other case.           *)
(***************************************************************************)
RED_KEYWORDS ==
   << [keyword |-> "zwangsvollstreckung", category |-> "enforcement", urgency |-> "red", weight |-> 100],
      [keyword |-> "vollstreckung", category |-> "enforcement", urgency |-> "red", weight |-> 90],
      [keyword |-> "erzwingungshaft", category |-> "enforcement", urgency |-> "red", weight |-> 100],
      [keyword |-> "haftbefehl", category |-> "enforcement", urgency |-> "red", weight |-> 100],
      [keyword |-> "pf¤§ndung", category |-> "enforcement", urgency |-> "red", weight |-> 90],
      [keyword |-> "gerichtsvollzieher", category |-> "enforcement", urgency |-> "red", weight |-> 85],
      [keyword |-> "vollstreckungsbeh¤¶rde", category |-> "enforcement", urgency |-> "red", weight |-> 95],
      [keyword |-> "zwangsma¤ünahme", category |-> "enforcement", urgency |-> "red", weight |-> 90],
      [keyword |-> "kontopf¤§ndung", category |-> "enforcement", urgency |-> "red", weight |-> 90],
      [keyword |-> "lohnpf¤§ndung", category |-> "enforcement", urgency |-> "red", weight |-> 90],
      [keyword |-> "r¤§umungsklage", category |-> "enforcement", urgency |-> "red", weight |-> 95],
      [keyword |-> "zwangsr¤§umung", category |-> "enforcement", urgency |-> "red", weight |-> 100] >>

YELLOW_KEYWORDS ==
   << [keyword |-> "letzte mahnung", category |-> "final_notice", urgency |-> "yellow", weight |-> 80],
      [keyword |-> "letzte zahlungsaufforderung", category |-> "final_notice", urgency |-> "yellow", weight |-> 80],
      [keyword |-> "zahlungserinnerung", category |-> "payment_reminder", urgency |-> "yellow", weight |-> 60],
      [keyword |-> "mahnung", category |-> "payment_reminder", urgency |-> "yellow", weight |-> 65],
      [keyword |-> "mahngeb¤ºhren", category |-> "payment_reminder", urgency |-> "yellow", weight |-> 55],
      [keyword |-> "verzugszinsen", category |-> "payment_reminder", urgency |-> "yellow", weight |-> 55],
      [keyword |-> "inkasso", category |-> "final_notice", urgency |-> "yellow", weight |-> 75],
      [keyword |-> "rechtliche schritte", category |-> "final_notice", urgency |-> "yellow", weight |-> 70],
      [keyword |-> "gerichtliche schritte", category |-> "final_notice", urgency |-> "yellow", weight |-> 75],
      [keyword |-> "frist", category |-> "payment_reminder", urgency |-> "yellow", weight |-> 50],
      [keyword |-> "fristablauf", category |-> "payment_reminder", urgency |-> "yellow", weight |-> 60],
      [keyword |-> "s¤§umniszuschlag", category |-> "payment_reminder", urgency |-> "yellow", weight |-> 55],
      [keyword |-> "zahlungspflichtig", category |-> "payment_reminder", urgency |-> "yellow", weight |-> 50],
      [keyword |-> "offene forderung", category |-> "payment_reminder", urgency |-> "yellow", weight |-> 55],
      [keyword |-> "ausstehende zahlung", category |-> "payment_reminder", urgency |-> "yellow", weight |-> 55],
      [keyword |-> "bitte ¤ºberweisen", category |-> "payment_reminder", urgency |-> "yellow", weight |-> 40],
      [keyword |-> "bitte begleichen", category |-> "payment_reminder", urgency |-> "yellow", weight |-> 45] >>

GREEN_KEYWORDS ==
   << [keyword |-> "informieren", category |-> "informational", urgency |-> "green", weight |-> 30],
      [keyword |-> "zur information", category |-> "informational", urgency |-> "green", weight |-> 35],
      [keyword |-> "zu ihrer information", category |-> "informational", urgency |-> "green", weight |-> 35],
      [keyword |-> "erfolgreich", category |-> "informational", urgency |-> "green", weight |-> 40],
      [keyword |-> "best¤§tigung", category |-> "informational", urgency |-> "green", weight |-> 35],
      [keyword |-> "best¤§tigt", category |-> "informational", urgency |-> "green", weight |-> 35],
      [keyword |-> "keine weiteren schritte", category |-> "informational", urgency |-> "green", weight |-> 50],
      [keyword |-> "kein handlungsbedarf", category |-> "informational", urgency |-> "green", weight |-> 50],
      [keyword |-> "abgeschlossen", category |-> "informational", urgency |-> "green", weight |-> 35],
      [keyword |-> "erledigt", category |-> "informational", urgency |-> "green", weight |-> 40],
      [keyword |-> "eingetragen", category |-> "informational", urgency |-> "green", weight |-> 30],
      [keyword |-> "aktualisiert", category |-> "informational", urgency |-> "green", weight |-> 30] >>

ALL_KEYWORDS == RED_KEYWORDS \o YELLOW_KEYWORDS \o GREEN_KEYWORDS

(***************************************************************************)
(* Pattern dictionary.  `reduction' is in hundredths (0.5 is 50).          *)
(***************************************************************************)
STRONG_NEGATORS ==
   << [words |-> << {"nicht"} >>, type |-> "strong", name |-> "nicht"],
      [words |-> << {"keine", "keinen", "keinem", "keiner", "keines"} >>, type |-> "strong", name |-> "keine"],
      [words |-> << {"keinerlei"} >>, type |-> "strong", name |-> "keinerlei"],
      [words |-> << {"niemals"} >>, type |-> "strong", name |-> "niemals"],
      [words |-> << {"weder"} >>, type |-> "strong", name |-> "weder"],
      [words |-> << {"ohne"} >>, type |-> "strong", name |-> "ohne"],
      [words |-> << {"nicht"}, {"mehr"} >>, type |-> "strong", name |-> "nicht mehr"] >>

CANCELLATION_VERBS ==
   << [words |-> << {"aufgehoben"} >>, type |-> "cancellation", name |-> "aufgehoben"],
      [words |-> << {"widerrufen"} >>, type |-> "cancellation", name |-> "widerrufen"],
      [words |-> << {"zurückgenommen", "zuruckgenommen"} >>, type |-> "cancellation", name |-> "zurückgenommen"],
      [words |-> << {"eingestellt"} >>, type |-> "cancellation", name |-> "eingestellt"],
      [words |-> << {"erledigt"} >>, type |-> "cancellation", name |-> "erledigt"],
      [words |-> << {"beendet"} >>, type |-> "cancellation", name |-> "beendet"],
      [words |-> << {"abgeschlossen"} >>, type |-> "cancellation", name |-> "abgeschlossen"] >>

REJECTION_PATTERNS ==
   << [words |-> << {"abgelehnt"} >>, type |-> "rejection", name |-> "abgelehnt"],
      [words |-> << {"nicht"}, {"erteilt"} >>, type |-> "rejection", name |-> "nicht erteilt"],
      [words |-> << {"wird"}, {"nicht"} >>, type |-> "rejection", name |-> "wird nicht"],
      [words |-> << {"nicht"}, {"vorgesehen"} >>, type |-> "rejection", name |-> "nicht vorgesehen"],
      [words |-> << {"entfällt", "entfallt"} >>, type |-> "rejection", name |-> "entfällt"],
      [words |-> << {"nicht"}, {"erforderlich"} >>, type |-> "rejection", name |-> "nicht erforderlich"] >>

INFORMATIONAL_MARKERS ==
   << [words |-> << {"zur"}, {"kenntnis"} >>, type |-> "informational", reduction |-> 50, name |-> "zur Kenntnis"],
      [words |-> << {"zur"}, {"information"} >>, type |-> "informational", reduction |-> 50, name |-> "zur Information"],
      [words |-> << {"hinweis"} >>, type |-> "informational", reduction |-> 30, name |-> "Hinweis"],
      [words |-> << {"mitteilung"} >>, type |-> "informational", reduction |-> 30, name |-> "Mitteilung"],
      [words |-> << {"kein"}, {"handlungsbedarf"} >>, type |-> "informational", reduction |-> 90, name |-> "kein Handlungsbedarf"],
      [words |-> << {"keine"}, {"weiteren"}, {"schritte"} >>, type |-> "informational", reduction |-> 90, name |-> "keine weiteren Schritte"],
      [words |-> << {"ohne"}, {"weitere"}, {"maßnahmen", "masnahmen"} >>, type |-> "informational", reduction |-> 70, name |-> "ohne weitere Maßnahmen"] >>

CONDITIONAL_MARKERS ==
   << [words |-> << {"falls"} >>, type |-> "conditional", reduction |-> 40, name |-> "falls"],
      [words |-> << {"sofern"} >>, type |-> "conditional", reduction |-> 40, name |-> "sofern"],
      [words |-> << {"wenn"}, {"nicht"} >>, type |-> "conditional", reduction |-> 30, name |-> "wenn nicht"],
      [words |-> << {"würde", "wurde"} >>, type |-> "conditional", reduction |-> 50, name |-> "würde"],
      [words |-> << {"könnte", "konnte"} >>, type |-> "conditional", reduction |-> 50, name |-> "könnte"] >>

\* faulty variant of EXCLUSION_PATTERNS: the table sorted by falling reduction,
\* "Aktennotiz" first
EXCLUSION_PATTERNS_byReduction ==
   << [words |-> << {"aktennotiz"} >>, type |-> "informational", reduction |-> 70, name |-> "Aktennotiz"],
      [words |-> << {"beschluss"} >>, type |-> "informational", reduction |-> 60, name |-> "Beschluss"],
      [words |-> << {"anordnung"} >>, type |-> "informational", reduction |-> 60, name |-> "Anordnung"],
      [words |-> << {"weisung", "weisungen"} >>, type |-> "informational", reduction |-> 60, name |-> "Weisung"],
      [words |-> << {"verfahrenskoordination"} >>, type |-> "informational", reduction |-> 60, name |-> "Verfahrenskoordination"],
      [words |-> << {"verwaltungsakt"} >>, type |-> "informational", reduction |-> 50, name |-> "Verwaltungsakt"] >>

EXCLUSION_PATTERNS ==
   << [words |-> << {"beschluss"} >>, type |-> "informational", reduction |-> 60, name |-> "Beschluss"],
      [words |-> << {"anordnung"} >>, type |-> "informational", reduction |-> 60, name |-> "Anordnung"],
      [words |-> << {"weisung", "weisungen"} >>, type |-> "informational", reduction |-> 60, name |-> "Weisung"],
      [words |-> << {"verfahrenskoordination"} >>, type |-> "informational", reduction |-> 60, name |-> "Verfahrenskoordination"],
      [words |-> << {"verwaltungsakt"} >>, type |-> "informational", reduction |-> 50, name |-> "Verwaltungsakt"],
      [words |-> << {"aktennotiz"} >>, type |-> "informational", reduction |-> 70, name |-> "Aktennotiz"] >>

\* index of the first pattern of the table that matches s, 0 when none does
\* (the `for (const p of TABLE) if (p.pattern.test(s)) return ...' loops)
FirstMatching(patterns, s) ==
   MinOr({ i \in 1..Len(patterns) : RegexTest(patterns[i].words, s) }, 0)

(***************************************************************************)
(* Math.round(originalWeight * (1 - reduction)) in IEEE-754 doubles.       *)
(* 1 - 0.9 is 0.09999999999999998 and 0.7 lies below 7/10, so the products *)
(* listed in FloatBelowHalf fall just below k + 0.5 and round down; every  *)
(* other product rounds as the exact one does (half up).                   *)
(***************************************************************************)
FloatBelowHalf ==
   { <<w, 90>> : w \in { v \in 0..100 : v % 10 = 5 } } \cup { <<45, 30>>, <<85, 30>> }

\* faulty variant of reducedWeight: Math.floor instead of Math.round
reducedWeight_floor(originalWeight, reduction) == (originalWeight * (100 - reduction)) \div 100

\* faulty variant of reducedWeight: 1 + reduction instead of 1 - reduction
reducedWeight_signSlip(originalWeight, reduction) ==
   (originalWeight * (100 + reduction) + 50) \div 100

reducedWeight(originalWeight, reduction) ==
   LET num == originalWeight * (100 - reduction)
   IN  IF num % 100 = 50 /\ <<originalWeight, reduction>> \in FloatBelowHalf
       THEN (num - 50) \div 100
       ELSE (num + 50) \div 100

(***************************************************************************)
(* Sentence segmentation                                                   *)
(***************************************************************************)
CONTRASTIVE_CONJUNCTIONS == {"aber", "jedoch", "allerdings", "dennoch", "trotzdem"}

\* the conjunctions /\b(aber|...)\b/i matches at the 1-based position i of
\* the lowered text ls (at most one)
ConjunctionAt(ls, i) ==
   { c \in CONTRASTIVE_CONJUNCTIONS :
        StartsAt(ls, i, c) /\ WordBoundary(ls, i) /\ WordBoundary(ls, i + Len(c)) }

\* text.replace(CONTRASTIVE_CONJUNCTIONS, ". $1") from the 1-based position
\* start; ReplaceAt is given the position i of the next match (0: none)
RECURSIVE InsertContrastiveSplits(_, _, _)
ReplaceMatch(s, ls, start, i, n) ==
   SubSeq(s, start, i - 1) \o ". " \o SubSeq(s, i, i + n - 1) \o InsertContrastiveSplits(s, ls, i + n)

ReplaceAt(s, ls, start, i) ==
   IF i = 0 THEN SubSeq(s, start, Len(s))
   ELSE ReplaceMatch(s, ls, start, i, Len(CHOOSE c \in ConjunctionAt(ls, i) : TRUE))

InsertContrastiveSplits(s, ls, start) ==
   ReplaceAt(s, ls, start, MinOr({ i \in start..Len(s) : ConjunctionAt(ls, i) # {} }, 0))

\* SENTENCE_DELIMITERS = /[.!?;]\s+|\n\n+/ tried at the 1-based position i:
\* the position after the match, 0 when it does not match there
DelimiterEnd(s, i) ==
   IF Ch(s, i) \in {".", "!", "?", ";"} /\ i + 1 <= Len(s) /\ IsSpace(Ch(s, i + 1))
   THEN NextNonSpace(s, i + 1)
   ELSE IF Ch(s, i) = "\n" /\ i + 1 <= Len(s) /\ Ch(s, i + 1) = "\n"
   THEN MinOr({ j \in i..Len(s) : Ch(s, j) # "\n" }, Len(s) + 1)
   ELSE 0

\* s.split(SENTENCE_DELIMITERS) from the 1-based position start; SplitAt is
\* given the position i of the next delimiter (0: none)
RECURSIVE SplitOnDelimiters(_, _)
SplitAt(s, start, i) ==
   IF i = 0 THEN << SubSeq(s, start, Len(s)) >>
   ELSE << SubSeq(s, start, i - 1) >> \o SplitOnDelimiters(s, DelimiterEnd(s, i))

SplitOnDelimiters(s, start) ==
   SplitAt(s, start, MinOr({ i \in start..Len(s) : DelimiterEnd(s, i) # 0 }, 0))

\* faulty variant of TrimAll: the parts are kept as split
TrimAll_untrimmed(parts) == parts

\* .map(s => s.trim())
TrimAll(parts) == [ i \in 1..Len(parts) |-> trim(parts[i]) ]

\* faulty variant of splitIntoSentences: the contrastive conjunctions do not
\* open a new unit
splitIntoSentences_delimitersOnly(text) ==
   SelectSeq(TrimAll(SplitOnDelimiters(text, 1)), LAMBDA p : Len(p) > 0)

splitIntoSentences(text) ==
   SelectSeq(TrimAll(SplitOnDelimiters(InsertContrastiveSplits(text, toLowerCase(text), 1), 1)),
             LAMBDA p : Len(p) > 0)

(***************************************************************************)
(* Context window                                                          *)
(***************************************************************************)
tokenize(sentence) == SplitWhitespace(toLowerCase(sentence), 1)

windowSize == 5

getContextWindow(tokens, keywordStartIndex, keywordLength) ==
   LET start == IF keywordStartIndex - windowSize > 0 THEN keywordStartIndex - windowSize ELSE 0
       full  == keywordStartIndex + keywordLength + windowSize
       end   == IF full < Len(tokens) THEN full ELSE Len(tokens)
   IN  JoinSlice(tokens, start, end)

\* 0-based index of the first token that includes the keyword's first word, -1 if none
FirstTokenWith(tokens, keywordFirst) ==
   MinOr({ i \in 1..Len(tokens) : Includes(tokens[i], keywordFirst) }, 0) - 1

findKeywordTokenIndex(tokens, keyword) ==
   FirstTokenWith(tokens, SplitWhitespace(toLowerCase(keyword), 1)[1])

(***************************************************************************)
(* Context evaluation                                                      *)
(***************************************************************************)
EvaluatedKeyword(keyword, category, originalWeight, effectiveWeight, reason, isNeutralized, context) ==
   [ keyword |-> keyword, category |-> category, originalWeight |-> originalWeight,
     effectiveWeight |-> effectiveWeight, reason |-> reason,
     isNeutralized |-> isNeutralized, context |-> context ]

\* `(-${Math.round(marker.reduction * 100)}%)'
Percent(reduction) == " (-" \o ToString(reduction) \o "%)"

\* the +-5 word window around the keyword, the whole lowered sentence when
\* no token holds the keyword's first word
windowText(tokens, keywordIndex, keywordLength, lowerSentence) ==
   IF keywordIndex >= 0 THEN getContextWindow(tokens, keywordIndex, keywordLength)
   ELSE lowerSentence

\* `...${sentence.substring(contextStart, contextEnd).trim()}...'
displayContext(sentence, keyword, keywordPos) ==
   "..." \o trim(Substring(sentence,
                           IF keywordPos - 30 > 0 THEN keywordPos - 30 ELSE 0,
                           IF keywordPos + Len(keyword) + 30 < Len(sentence)
                           THEN keywordPos + Len(keyword) + 30 ELSE Len(sentence))) \o "..."

\* faulty variant of ContextRules: the conditional markers are consulted
\* before the informational markers
ContextRules_conditionalFirst(keyword, category, originalWeight, context, negator, verb, rejection, informational, conditional) ==
   IF negator # 0 THEN
      EvaluatedKeyword(keyword, category, originalWeight, 0,
         "Negiert durch \"" \o STRONG_NEGATORS[negator].name \o "\"", TRUE, context)
   ELSE IF verb # 0 THEN
      EvaluatedKeyword(keyword, category, originalWeight, 0,
         "Aufgehoben/Erledigt: \"" \o CANCELLATION_VERBS[verb].name \o "\"", TRUE, context)
   ELSE IF rejection # 0 THEN
      EvaluatedKeyword(keyword, category, originalWeight, 0,
         "Abgelehnt: \"" \o REJECTION_PATTERNS[rejection].name \o "\"", TRUE, context)
   ELSE IF conditional # 0 THEN
      EvaluatedKeyword(keyword, category, originalWeight,
         reducedWeight(originalWeight, CONDITIONAL_MARKERS[conditional].reduction),
         "Bedingt: \"" \o CONDITIONAL_MARKERS[conditional].name \o "\""
            \o Percent(CONDITIONAL_MARKERS[conditional].reduction),
         FALSE, context)
   ELSE IF informational # 0 THEN
      EvaluatedKeyword(keyword, category, originalWeight,
         reducedWeight(originalWeight, INFORMATIONAL_MARKERS[informational].reduction),
         "Nur zur Information: \"" \o INFORMATIONAL_MARKERS[informational].name \o "\""
            \o Percent(INFORMATIONAL_MARKERS[informational].reduction),
         FALSE, context)
   ELSE
      EvaluatedKeyword(keyword, category, originalWeight, originalWeight,
         "Direkte/handlungsrelevante Aussage", FALSE, context)

\* rules 1 to 6, each given the index of the first pattern of its table
\* that matches the text the rule tests (0: none)
ContextRules(keyword, category, originalWeight, context, negator, verb, rejection, informational, conditional) ==
   IF negator # 0 THEN
      EvaluatedKeyword(keyword, category, originalWeight, 0,
         "Negiert durch \"" \o STRONG_NEGATORS[negator].name \o "\"", TRUE, context)
   ELSE IF verb # 0 THEN
      EvaluatedKeyword(keyword, category, originalWeight, 0,
         "Aufgehoben/Erledigt: \"" \o CANCELLATION_VERBS[verb].name \o "\"", TRUE, context)
   ELSE IF rejection # 0 THEN
      EvaluatedKeyword(keyword, category, originalWeight, 0,
         "Abgelehnt: \"" \o REJECTION_PATTERNS[rejection].name \o "\"", TRUE, context)
   ELSE IF informational # 0 THEN
      EvaluatedKeyword(keyword, category, originalWeight,
         reducedWeight(originalWeight, INFORMATIONAL_MARKERS[informational].reduction),
         "Nur zur Information: \"" \o INFORMATIONAL_MARKERS[informational].name \o "\""
            \o Percent(INFORMATIONAL_MARKERS[informational].reduction),
         FALSE, context)
   ELSE IF conditional # 0 THEN
      EvaluatedKeyword(keyword, category, originalWeight,
         reducedWeight(originalWeight, CONDITIONAL_MARKERS[conditional].reduction),
         "Bedingt: \"" \o CONDITIONAL_MARKERS[conditional].name \o "\""
            \o Percent(CONDITIONAL_MARKERS[conditional].reduction),
         FALSE, context)
   ELSE
      EvaluatedKeyword(keyword, category, originalWeight, originalWeight,
         "Direkte/handlungsrelevante Aussage", FALSE, context)

\* faulty variant of EvaluateIn: the cancellation verbs are looked for in the
\* +-5 word window only, as the negators are
EvaluateIn_verbInWindow(keyword, category, originalWeight, context, window, lowerSentence) ==
   ContextRules(keyword, category, originalWeight, context,
                FirstMatching(STRONG_NEGATORS, window),
                FirstMatching(CANCELLATION_VERBS, window),
                FirstMatching(REJECTION_PATTERNS, window),
                FirstMatching(INFORMATIONAL_MARKERS, lowerSentence),
                FirstMatching(CONDITIONAL_MARKERS, window))

\* the rules applied to the window (rules 1, 3, 5) and to the whole lowered
\* sentence (rules 2, 4)
EvaluateIn(keyword, category, originalWeight, context, window, lowerSentence) ==
   ContextRules(keyword, category, originalWeight, context,
                FirstMatching(STRONG_NEGATORS, window),
                FirstMatching(CANCELLATION_VERBS, lowerSentence),
                FirstMatching(REJECTION_PATTERNS, window),
                FirstMatching(INFORMATIONAL_MARKERS, lowerSentence),
                FirstMatching(CONDITIONAL_MARKERS, window))

EvaluateTokens(sentence, keyword, category, originalWeight, tokens, lowerSentence) ==
   EvaluateIn(keyword, category, originalWeight,
              displayContext(sentence, keyword, IndexOf(lowerSentence, toLowerCase(keyword), 0)),
              windowText(tokens, findKeywordTokenIndex(tokens, keyword),
                         Len(SplitWhitespace(keyword, 1)), lowerSentence),
              lowerSentence)

evaluateKeywordInContext(sentence, keyword, category, originalWeight) ==
   EvaluateTokens(sentence, keyword, category, originalWeight,
                  tokenize(sentence), toLowerCase(sentence))

(***************************************************************************)
(* Subject line (Betreff) evaluation against the body                      *)
(***************************************************************************)
\* the alternatives of (nicht|keine[nmrs]?|niemals)
KeywordNegationWords == {"nicht", "keine", "keinen", "keinem", "keiner", "keines", "niemals"}

\* the alternatives of (wird nicht|nicht erteilt|nicht vorgesehen|entfällt|abgelehnt)
KeywordRejectionPhrases == {"wird nicht", "nicht erteilt", "nicht vorgesehen", "entfällt", "abgelehnt"}

NoPeriodBetween(s, from, to) == \A k \in from..to : Ch(s, k) # "."

\* new RegExp(`${kw}[^.]*\\b(phrases)\\b`, 'i').test(s) on the lowered body s
KeywordThenPhrase(s, kw, phrases) ==
   \E i \in 1..Len(s) :
      /\ StartsAt(s, i, kw)
      /\ \E j \in (i + Len(kw))..Len(s) : \E ph \in phrases :
            /\ StartsAt(s, j, ph)
            /\ WordBoundary(s, j)
            /\ WordBoundary(s, j + Len(ph))
            /\ NoPeriodBetween(s, i + Len(kw), j - 1)

\* new RegExp(`(phrases)[^.]*${kw}`, 'i').test(s); bounded is TRUE for the
\* pattern that wraps the alternatives in \b...\b
PhraseThenKeyword(s, kw, phrases, bounded) ==
   \E j \in 1..Len(s) : \E ph \in phrases :
      /\ StartsAt(s, j, ph)
      /\ bounded => (WordBoundary(s, j) /\ WordBoundary(s, j + Len(ph)))
      /\ \E i \in (j + Len(ph))..Len(s) :
            /\ StartsAt(s, i, kw)
            /\ NoPeriodBetween(s, j + Len(ph), i - 1)

keywordNegationPatterns(lowerBody, lowerKeyword) ==
   \/ KeywordThenPhrase(lowerBody, lowerKeyword, KeywordNegationWords)
   \/ PhraseThenKeyword(lowerBody, lowerKeyword, KeywordNegationWords, TRUE)
   \/ KeywordThenPhrase(lowerBody, lowerKeyword, KeywordRejectionPhrases)
   \/ PhraseThenKeyword(lowerBody, lowerKeyword, KeywordRejectionPhrases, FALSE)

\* faulty variant of FirstInSentenceWithKeyword: a body sentence that matches
\* the pattern suffices, whether or not it mentions the keyword
FirstInSentenceWithKeyword_anySentence(patterns, sentences, lowerBody, lowerKeyword, prefilter) ==
   MinOr({ p \in 1..Len(patterns) :
              \E n \in 1..Len(sentences) :
                 RegexTest(patterns[p].words, toLowerCase(sentences[n])) }, 0)

\* index of the first pattern of the table for which a body sentence both
\* matches the pattern and includes the keyword (0 when none); prefilter is
\* the test of the pattern against the whole lowered body made by rules 3, 4
FirstInSentenceWithKeyword(patterns, sentences, lowerBody, lowerKeyword, prefilter) ==
   MinOr({ p \in 1..Len(patterns) :
              /\ prefilter => RegexTest(patterns[p].words, lowerBody)
              /\ \E n \in 1..Len(sentences) :
                    /\ Includes(toLowerCase(sentences[n]), lowerKeyword)
                    /\ RegexTest(patterns[p].words, toLowerCase(sentences[n])) }, 0)

\* faulty variant of BetreffRules: the exclusion patterns and informational
\* markers are consulted before the cancellation, negation and rejection of
\* the keyword in a body sentence
BetreffRules_exclusionFirst(keyword, category, originalWeight, context, negated, verb, negator, rejection, exclusion, marker) ==
   IF negated THEN
      EvaluatedKeyword(keyword, category, originalWeight, 0,
         "Betreff-Keyword im Body negiert", TRUE, context)
   ELSE IF exclusion # 0 THEN
      EvaluatedKeyword(keyword, category, originalWeight,
         reducedWeight(originalWeight, EXCLUSION_PATTERNS[exclusion].reduction),
         "Betreff in Verwaltungskontext: \"" \o EXCLUSION_PATTERNS[exclusion].name \o "\""
            \o Percent(EXCLUSION_PATTERNS[exclusion].reduction),
         FALSE, context)
   ELSE IF marker # 0 THEN
      EvaluatedKeyword(keyword, category, originalWeight,
         reducedWeight(originalWeight, INFORMATIONAL_MARKERS[marker].reduction),
         "Betreff zur Information: \"" \o INFORMATIONAL_MARKERS[marker].name \o "\""
            \o Percent(INFORMATIONAL_MARKERS[marker].reduction),
         FALSE, context)
   ELSE IF verb # 0 THEN
      EvaluatedKeyword(keyword, category, originalWeight, 0,
         "Betreff-Keyword im Body aufgehoben: \"" \o CANCELLATION_VERBS[verb].name \o "\"",
         TRUE, context)
   ELSE IF negator # 0 THEN
      EvaluatedKeyword(keyword, category, originalWeight, 0,
         "Betreff-Keyword negiert: \"" \o STRONG_NEGATORS[negator].name \o "\"",
         TRUE, context)
   ELSE IF rejection # 0 THEN
      EvaluatedKeyword(keyword, category, originalWeight, 0,
         "Betreff-Keyword abgelehnt: \"" \o REJECTION_PATTERNS[rejection].name \o "\"",
         TRUE, context)
   ELSE
      EvaluatedKeyword(keyword, category, originalWeight, originalWeight,
         "Betreff: Keine neutralisierende Kontext im Body", FALSE, context)

\* rules 1 to 7, each given whether (rule 1) or with which pattern of its
\* table (0: none) it applies
BetreffRules(keyword, category, originalWeight, context, negated, verb, negator, rejection, exclusion, marker) ==
   IF negated THEN
      EvaluatedKeyword(keyword, category, originalWeight, 0,
         "Betreff-Keyword im Body negiert", TRUE, context)
   ELSE IF verb # 0 THEN
      EvaluatedKeyword(keyword, category, originalWeight, 0,
         "Betreff-Keyword im Body aufgehoben: \"" \o CANCELLATION_VERBS[verb].name \o "\"",
         TRUE, context)
   ELSE IF negator # 0 THEN
      EvaluatedKeyword(keyword, category, originalWeight, 0,
         "Betreff-Keyword negiert: \"" \o STRONG_NEGATORS[negator].name \o "\"",
         TRUE, context)
   ELSE IF rejection # 0 THEN
      EvaluatedKeyword(keyword, category, originalWeight, 0,
         "Betreff-Keyword abgelehnt: \"" \o REJECTION_PATTERNS[rejection].name \o "\"",
         TRUE, context)
   ELSE IF exclusion # 0 THEN
      EvaluatedKeyword(keyword, category, originalWeight,
         reducedWeight(originalWeight, EXCLUSION_PATTERNS[exclusion].reduction),
         "Betreff in Verwaltungskontext: \"" \o EXCLUSION_PATTERNS[exclusion].name \o "\""
            \o Percent(EXCLUSION_PATTERNS[exclusion].reduction),
         FALSE, context)
   ELSE IF marker # 0 THEN
      EvaluatedKeyword(keyword, category, originalWeight,
         reducedWeight(originalWeight, INFORMATIONAL_MARKERS[marker].reduction),
         "Betreff zur Information: \"" \o INFORMATIONAL_MARKERS[marker].name \o "\""
            \o Percent(INFORMATIONAL_MARKERS[marker].reduction),
         FALSE, context)
   ELSE
      EvaluatedKeyword(keyword, category, originalWeight, originalWeight,
         "Betreff: Keine neutralisierende Kontext im Body", FALSE, context)

\* the rules applied to the lowered body and to the sentences of the body
EvaluateInBody(keyword, category, originalWeight, context, lowerBody, lowerKeyword, sentences) ==
   BetreffRules(keyword, category, originalWeight, context,
                keywordNegationPatterns(lowerBody, lowerKeyword),
                FirstInSentenceWithKeyword(CANCELLATION_VERBS, sentences, lowerBody, lowerKeyword, FALSE),
                FirstInSentenceWithKeyword(STRONG_NEGATORS, sentences, lowerBody, lowerKeyword, TRUE),
                FirstInSentenceWithKeyword(REJECTION_PATTERNS, sentences, lowerBody, lowerKeyword, TRUE),
                FirstMatching(EXCLUSION_PATTERNS, lowerBody),
                FirstMatching(INFORMATIONAL_MARKERS, lowerBody))

evaluateBetreffKeywordWithBodyContext(keyword, category, originalWeight, betreffLine, bodyText) ==
   EvaluateInBody(keyword, category, originalWeight,
                  "Betreff: " \o Substring(betreffLine, 0, 50) \o "...",
                  toLowerCase(bodyText), toLowerCase(keyword), splitIntoSentences(bodyText))

(***************************************************************************)
(* Subject line detection: /Betreff:?\s*(.+?)(?:\n|$)/i and its siblings   *)
(***************************************************************************)
betreffPatterns == << "betreff", "betr.", "bezug" >>

IsLineTerminator(c) == c \in {"\n", "\r"}

\* 1-based position of the last character of the lazy capture (.+?) that
\* starts at p: the capture stops before the first "\n" or at the end of
\* the text; 0 when the capture cannot start at p or cannot be completed
\* (CaptureStop is given the first position e the capture cannot pass)
CaptureStop(s, e) == IF e = Len(s) \/ Ch(s, e + 1) = "\n" THEN e ELSE 0

CaptureEnd(s, p) ==
   IF p > Len(s) \/ IsLineTerminator(Ch(s, p)) THEN 0
   ELSE CaptureStop(s, Min({ e \in p..Len(s) : e = Len(s) \/ IsLineTerminator(Ch(s, e + 1)) }))

\* hi, hi - 1, ..., lo
Descending(hi, lo) == [ j \in 1..(hi - lo + 1) |-> hi - j + 1 ]

\* the capture starts the regular expression tries, in its backtracking
\* order, for a marker that starts at i: the optional colon taken first,
\* the whitespace run \s* longest first
CaptureStarts(s, i, marker) ==
   LET a == i + Len(marker)
   IN  IF a <= Len(s) /\ Ch(s, a) = ":"
       THEN Descending(NextNonSpace(s, a + 1), a + 1) \o Descending(NextNonSpace(s, a), a)
       ELSE Descending(NextNonSpace(s, a), a)

\* the first of the capture starts cs from which the capture can be
\* completed, 0 when there is none
FirstCapture(s, cs) ==
   (<< 0 >> \o cs)[MinOr({ n \in 1..Len(cs) : CaptureEnd(s, cs[n]) # 0 }, 0) + 1]

\* the match with the marker at i (1-based), the capture from p to e
MatchRecord(s, i, p, e) ==
   [ found |-> TRUE, index |-> i - 1,
     whole |-> SubSeq(s, i, IF e < Len(s) THEN e + 1 ELSE e),
     capture |-> SubSeq(s, p, e) ]

MatchFrom(s, i, p) == MatchRecord(s, i, p, CaptureEnd(s, p))

MatchAt(s, marker, i) ==
   IF i = 0 THEN [ found |-> FALSE ]
   ELSE MatchFrom(s, i, FirstCapture(s, CaptureStarts(s, i, marker)))

\* the leftmost position where the pattern matches (0: nowhere)
LeftmostMatch(s, ls, marker) ==
   MinOr({ i \in 1..Len(s) :
              StartsAt(ls, i, marker) /\ FirstCapture(s, CaptureStarts(s, i, marker)) # 0 }, 0)

\* text.match(pattern) for one subject pattern: [index, whole match,
\* capture], or found = FALSE
BetreffMatch(s, marker) == MatchAt(s, marker, LeftmostMatch(s, toLowerCase(s), marker))

\* text.replace(match[0], '') replaces the first occurrence of the string
RemoveAt(s, part, at) ==
   IF at = -1 THEN s ELSE SubSeq(s, 1, at) \o SubSeq(s, at + Len(part) + 1, Len(s))

RemoveFirst(s, part) == RemoveAt(s, part, IndexOf(s, part, 0))

\* the object extractBetreffAndBody returns for a match
BetreffExtraction(text, match, betreffLine, betreffStart) ==
   [ found |-> TRUE,
     betreff |-> betreffLine,
     body |-> trim(RemoveFirst(text, match.whole)),
     betreffStart |-> betreffStart,
     betreffEnd |-> betreffStart + Len(betreffLine) ]

ExtractionOf(text, match) ==
   BetreffExtraction(text, match, trim(match.capture),
                     match.index + IndexOf(match.whole, match.capture, 0))

\* the extraction by the n-th pattern (0: no pattern matches)
ExtractionBy(text, n) ==
   IF n = 0 THEN [ found |-> FALSE ]
   ELSE ExtractionOf(text, BetreffMatch(text, betreffPatterns[n]))

\* faulty variant of extractBetreffAndBody: of the patterns that match, the
\* one whose match stands first in the text is taken
extractBetreffAndBody_byPosition(text) ==
   ExtractionBy(text, MinOr({ n \in 1..Len(betreffPatterns) :
                                /\ BetreffMatch(text, betreffPatterns[n]).found
                                /\ \A k \in 1..Len(betreffPatterns) :
                                      BetreffMatch(text, betreffPatterns[k]).found
                                         => BetreffMatch(text, betreffPatterns[n]).index
                                               <= BetreffMatch(text, betreffPatterns[k]).index }, 0))

\* both copies (scoring engine and highlighter); the highlighter's copy also
\* returns betreffStart and betreffEnd
extractBetreffAndBody(text) ==
   ExtractionBy(text, MinOr({ n \in 1..Len(betreffPatterns) :
                                BetreffMatch(text, betreffPatterns[n]).found }, 0))

(***************************************************************************)
(* Match collector                                                         *)
(***************************************************************************)
ExtendedKeywordMatch(evaluated) ==
   [ keyword |-> evaluated.keyword, category |-> evaluated.category,
     weight |-> evaluated.effectiveWeight, context |-> evaluated.context,
     originalWeight |-> evaluated.originalWeight,
     effectiveWeight |-> evaluated.effectiveWeight,
     isNeutralized |-> evaluated.isNeutralized, reason |-> evaluated.reason ]

\* the definitions of ALL_KEYWORDS whose keyword the lowered text contains,
\* in dictionary order
KeywordsIn(normalized) ==
   SelectSeq(ALL_KEYWORDS, LAMBDA def : IndexOf(normalized, def.keyword, 0) # -1)

SentenceMatches(sentence, found) ==
   [ n \in 1..Len(found) |->
        ExtendedKeywordMatch(evaluateKeywordInContext(sentence, found[n].keyword,
                                found[n].category, found[n].weight)) ]

findKeywordMatchesInSentence(sentence) ==
   SentenceMatches(sentence, KeywordsIn(toLowerCase(sentence)))

BetreffMatches(betreffLine, bodyText, found) ==
   [ n \in 1..Len(found) |->
        ExtendedKeywordMatch(evaluateBetreffKeywordWithBodyContext(found[n].keyword,
                                found[n].category, found[n].weight, betreffLine, bodyText)) ]

findBetreffKeywordMatches(betreffLine, bodyText) ==
   BetreffMatches(betreffLine, bodyText, KeywordsIn(toLowerCase(betreffLine)))

\* allMatches.push(...findKeywordMatchesInSentence(sentence)) for every sentence
RECURSIVE MatchesOfSentences(_, _)
MatchesOfSentences(sentences, n) ==
   IF n > Len(sentences) THEN << >>
   ELSE findKeywordMatchesInSentence(sentences[n]) \o MatchesOfSentences(sentences, n + 1)

\* faulty variant of CollectMatches: the body (or the text) is searched and
\* evaluated as one unit instead of sentence by sentence
CollectMatches_wholeText(text, betreffExtraction) ==
   IF betreffExtraction.found
   THEN findBetreffKeywordMatches(betreffExtraction.betreff, betreffExtraction.body)
           \o findKeywordMatchesInSentence(betreffExtraction.body)
   ELSE findKeywordMatchesInSentence(text)

CollectMatches(text, betreffExtraction) ==
   IF betreffExtraction.found
   THEN findBetreffKeywordMatches(betreffExtraction.betreff, betreffExtraction.body)
           \o MatchesOfSentences(splitIntoSentences(betreffExtraction.body), 1)
   ELSE MatchesOfSentences(splitIntoSentences(text), 1)

findKeywordMatchesWithContext(text) == CollectMatches(text, extractBetreffAndBody(text))

(***************************************************************************)
(* Score aggregator                                                        *)
(***************************************************************************)
\* key order of the categoryScores object literal
LetterCategories == << "enforcement", "final_notice", "payment_reminder", "informational", "unknown" >>

RECURSIVE SumOfCategory(_, _, _)
SumOfCategory(matches, category, n) ==
   IF n > Len(matches) THEN 0
   ELSE (IF matches[n].category = category THEN matches[n].effectiveWeight ELSE 0)
           + SumOfCategory(matches, category, n + 1)

\* faulty variant of HighestScoring: `>=' instead of `>', so that of two
\* categories with the same sum the later one wins
RECURSIVE HighestScoring_lastWins(_, _, _, _)
HighestScoring_lastWins(categoryScores, n, maxScore, primaryCategory) ==
   IF n > Len(LetterCategories) THEN primaryCategory
   ELSE IF categoryScores[n] >= maxScore
        THEN HighestScoring_lastWins(categoryScores, n + 1, categoryScores[n], LetterCategories[n])
        ELSE HighestScoring_lastWins(categoryScores, n + 1, maxScore, primaryCategory)

\* the `if (score > maxScore)' loop over Object.entries(categoryScores),
\* from the n-th category on
RECURSIVE HighestScoring(_, _, _, _)
HighestScoring(categoryScores, n, maxScore, primaryCategory) ==
   IF n > Len(LetterCategories) THEN primaryCategory
   ELSE IF categoryScores[n] > maxScore
        THEN HighestScoring(categoryScores, n + 1, categoryScores[n], LetterCategories[n])
        ELSE HighestScoring(categoryScores, n + 1, maxScore, primaryCategory)

\* faulty variant of CategoryOf: the early return for an empty list of active
\* matches is missing
CategoryOf_noEarlyReturn(activeMatches) ==
   HighestScoring([ n \in 1..Len(LetterCategories) |->
                       SumOfCategory(activeMatches, LetterCategories[n], 1) ],
                  1, 0, "unknown")

CategoryOf(activeMatches) ==
   IF Len(activeMatches) = 0 THEN "informational"
   ELSE HighestScoring([ n \in 1..Len(LetterCategories) |->
                            SumOfCategory(activeMatches, LetterCategories[n], 1) ],
                       1, 0, "unknown")

determinePrimaryCategory(matches) ==
   CategoryOf(SelectSeq(matches, LAMBDA m : ~m.isNeutralized))

\* thresholds of URGENCY_THRESHOLDS
URGENCY_THRESHOLDS == [ red |-> 80, yellow |-> 40, green |-> 0 ]

\* faulty variant of getUrgencyFromScore: green asks for a positive score,
\* and a score of 0 is left without a level
getUrgencyFromScore_positiveOnly(score) ==
   IF score >= URGENCY_THRESHOLDS.red THEN "red"
   ELSE IF score >= URGENCY_THRESHOLDS.yellow THEN "yellow"
   ELSE IF score > URGENCY_THRESHOLDS.green THEN "green"
   ELSE "undefined"

getUrgencyFromScore(score) ==
   IF score >= URGENCY_THRESHOLDS.red THEN "red"
   ELSE IF score >= URGENCY_THRESHOLDS.yellow THEN "yellow"
   ELSE "green"

\* faulty variant of getDeadlineMultiplier: the factors of the nearest and of
\* the farthest breakpoint exchanged
getDeadlineMultiplier_exchanged(days) ==
   IF ~days.defined THEN 100
   ELSE IF days.days <= 3 THEN 110
   ELSE IF days.days <= 7 THEN 125
   ELSE IF days.days <= 14 THEN 150
   ELSE 100

\* deadlineDays is [defined |-> FALSE] for undefined, [defined |-> TRUE, days |-> n]
\* otherwise; the multiplier is returned in hundredths (1.25 is 125)
getDeadlineMultiplier(days) ==
   IF ~days.defined THEN 100
   ELSE IF days.days <= 3 THEN 150
   ELSE IF days.days <= 7 THEN 125
   ELSE IF days.days <= 14 THEN 110
   ELSE 100

\* Math.round(weight * multiplier): 1.5 and 1.25 are exact doubles, and the
\* products with 1.1 that are k + 0.5 exactly do not fall below it
RoundTimes(weight, multiplier) == (weight * multiplier + 50) \div 100

IsKeywordOf(tier, keyword) == \E n \in 1..Len(tier) : tier[n].keyword = keyword

MaxEffectiveWeight(matches) == Max({ matches[n].effectiveWeight : n \in 1..Len(matches) })

\* faulty variant of TierScore: the largest effective weight of all active
\* matches, whatever their tier
TierScore_maxOfAll(activeRedKeywords, activeYellowKeywords, activeGreenKeywords, deadlineDays) ==
   Min({ 100, RoundTimes(MaxEffectiveWeight(activeRedKeywords \o activeYellowKeywords
                                               \o activeGreenKeywords),
                         getDeadlineMultiplier(deadlineDays)) })

\* faulty variant of TierScore: every tier is capped at 100
TierScore_uncapped(activeRedKeywords, activeYellowKeywords, activeGreenKeywords, deadlineDays) ==
   IF Len(activeRedKeywords) > 0
   THEN Min({ 100, RoundTimes(MaxEffectiveWeight(activeRedKeywords),
                              getDeadlineMultiplier(deadlineDays)) })
   ELSE IF Len(activeYellowKeywords) > 0
   THEN Min({ 100, RoundTimes(MaxEffectiveWeight(activeYellowKeywords),
                              getDeadlineMultiplier(deadlineDays)) })
   ELSE IF Len(activeGreenKeywords) > 0
   THEN Min({ 100, MaxEffectiveWeight(activeGreenKeywords) })
   ELSE 0

\* the three tier branches, given the active matches of each tier
TierScore(activeRedKeywords, activeYellowKeywords, activeGreenKeywords, deadlineDays) ==
   IF Len(activeRedKeywords) > 0
   THEN Min({ 100, RoundTimes(MaxEffectiveWeight(activeRedKeywords),
                              getDeadlineMultiplier(deadlineDays)) })
   ELSE IF Len(activeYellowKeywords) > 0
   THEN Min({ 79, RoundTimes(MaxEffectiveWeight(activeYellowKeywords),
                             getDeadlineMultiplier(deadlineDays)) })
   ELSE IF Len(activeGreenKeywords) > 0
   THEN Min({ 39, MaxEffectiveWeight(activeGreenKeywords) })
   ELSE 0

ScoreOf(activeMatches, deadlineDays) ==
   IF Len(activeMatches) = 0 THEN 0
   ELSE TierScore(SelectSeq(activeMatches, LAMBDA m : IsKeywordOf(RED_KEYWORDS, m.keyword)),
                  SelectSeq(activeMatches, LAMBDA m : IsKeywordOf(YELLOW_KEYWORDS, m.keyword)),
                  SelectSeq(activeMatches, LAMBDA m : IsKeywordOf(GREEN_KEYWORDS, m.keyword)),
                  deadlineDays)

calculateScoreWithContext(matches, deadlineDays) ==
   ScoreOf(SelectSeq(matches, LAMBDA m : ~m.isNeutralized), deadlineDays)

(***************************************************************************)
(* Output assembly                                                         *)
(***************************************************************************)
CATEGORY_LABELS ==
   [ enforcement |-> "Vollstreckungsbescheid", final_notice |-> "Letzte Mahnung",
     payment_reminder |-> "Zahlungserinnerung", informational |-> "Informationsschreiben",
     unknown |-> "Unbekannt" ]

CATEGORY_RECOMMENDATIONS ==
   [ enforcement |->
        << "Suchen Sie sofort rechtliche Beratung (z.B. Schuldnerberatung, Rechtsanwalt).",
           "Prüfen Sie die genannte Forderung auf Richtigkeit.",
           "Zahlen Sie keine Barzahlungen an Unbekannte.",
           "Bewahren Sie alle Unterlagen sorgfältig auf.",
           "Reagieren Sie innerhalb der angegebenen Frist." >>,
     final_notice |->
        << "Begleichen Sie die Forderung vor Ablauf der Frist.",
           "Kontaktieren Sie den Absender für eine Ratenzahlung, falls nötig.",
           "Prüfen Sie, ob die Forderung berechtigt ist.",
           "Ignorieren Sie das Schreiben nicht - es drohen weitere Kosten." >>,
     payment_reminder |->
        << "Überprüfen Sie die genannte Rechnung in Ihren Unterlagen.",
           "Begleichen Sie den offenen Betrag zeitnah.",
           "Bei Unklarheiten: Kontaktieren Sie den Absender.",
           "Bewahren Sie den Zahlungsnachweis auf." >>,
     informational |->
        << "Keine sofortigen Maßnahmen erforderlich.",
           "Lesen Sie das Schreiben zur Information.",
           "Heften Sie das Dokument zu Ihren Unterlagen." >>,
     unknown |->
        << "Lesen Sie das Schreiben sorgfältig durch.",
           "Bei Unklarheiten: Kontaktieren Sie den Absender.",
           "Prüfen Sie, ob eine Reaktion erforderlich ist." >> ]

getArticle(category) ==
   IF category \in {"final_notice", "payment_reminder"} THEN "eine" ELSE "ein"

SUMMARY_TEMPLATES(urgency, category, label) ==
   IF urgency = "red" THEN
      IF category = "unknown"
      THEN "Der Inhalt dieses Schreibens konnte nicht automatisch klassifiziert werden, die Dringlichkeit wird jedoch als KRITISCH eingestuft."
      ELSE "Dies ist " \o getArticle(category) \o " " \o label
              \o " mit höchster Dringlichkeit. Es drohen unmittelbare rechtliche Konsequenzen wie Pfändung oder Zwangsvollstreckung."
   ELSE IF urgency = "yellow" THEN
      IF category = "unknown"
      THEN "Der Inhalt dieses Schreibens konnte nicht automatisch klassifiziert werden. Bitte prüfen Sie es manuell auf Fristen."
      ELSE "Dies ist " \o getArticle(category) \o " " \o label
              \o ". Sie sollten innerhalb der angegebenen Frist reagieren, um weitere Kosten oder rechtliche Schritte zu vermeiden."
   ELSE
      IF category = "unknown"
      THEN "Der Inhalt dieses Schreibens konnte nicht automatisch klassifiziert werden. Es scheint sich jedoch um eine Information ohne sofortigen Handlungsbedarf zu handeln."
      ELSE "Dies ist " \o getArticle(category) \o " " \o label
              \o ". Es handelt sich um eine Information - keine dringende Reaktion erforderlich."

\* the matches.map(...) of analyzeText back to the KeywordMatch format
standardMatches(matches) ==
   [ n \in 1..Len(matches) |->
        [ keyword |-> matches[n].keyword, category |-> matches[n].category,
          weight |-> matches[n].effectiveWeight,
          context |-> IF matches[n].isNeutralized
                      THEN matches[n].context \o " [" \o matches[n].reason \o "]"
                      ELSE matches[n].context ] ]

\* the object analyzeText returns
ResultRecord(matches, category, score, urgency, categoryLabel) ==
   [ urgency |-> urgency, score |-> score, category |-> category,
     categoryLabel |-> categoryLabel, matches |-> standardMatches(matches),
     summary |-> SUMMARY_TEMPLATES(urgency, category, categoryLabel),
     recommendations |-> CATEGORY_RECOMMENDATIONS[category] ]

ResultOf(matches, category, score) ==
   ResultRecord(matches, category, score, getUrgencyFromScore(score), CATEGORY_LABELS[category])

\* analyzeText from the collected matches on
ScoringResult(matches, deadlineDays) ==
   ResultOf(matches, determinePrimaryCategory(matches),
            calculateScoreWithContext(matches, deadlineDays))

analyzeText(text, extractedData) ==
   ScoringResult(findKeywordMatchesWithContext(text), extractedData.deadlineDays)

(***************************************************************************)
(* Deadline extraction: DEADLINE_DAYS_PATTERN is                           *)
(* (?:innerhalb\s+(?:von\s+)?|frist\s+(?:von\s+)?|binnen\s+)(\d+)\s*       *)
(* (?:tage[n]?|werktage[n]?) with the flags g and i, executed once on a    *)
(* fresh RegExp: the leftmost match decides.                               *)
(***************************************************************************)
Digits == CharsOf("0123456789")

\* 1-based index past the run of digits that starts at i (i when none does)
DigitsEnd(s, i) == MinOr({ j \in i..Len(s) : Ch(s, j) \notin Digits }, Len(s) + 1)

\* word\s+ at the 1-based position i of the lowered text: the index past it,
\* 0 when it does not match there
AfterWord(ls, i, word) ==
   IF StartsAt(ls, i, word) /\ NextNonSpace(ls, i + Len(word)) > i + Len(word)
   THEN NextNonSpace(ls, i + Len(word))
   ELSE 0

\* the indexes at which the prefix alternative starting with `word' can end,
\* with and without the optional von\s+
AfterPrefix(ls, a, optionalVon) ==
   IF a = 0 THEN {}
   ELSE IF optionalVon /\ AfterWord(ls, a, "von") # 0 THEN { a, AfterWord(ls, a, "von") }
   ELSE { a }

PrefixEnds(ls, i) ==
   AfterPrefix(ls, AfterWord(ls, i, "innerhalb"), TRUE)
      \cup AfterPrefix(ls, AfterWord(ls, i, "frist"), TRUE)
      \cup AfterPrefix(ls, AfterWord(ls, i, "binnen"), FALSE)

\* (\d+)\s*(?:tage[n]?|werktage[n]?) from p on, the digits ending before e
DaysFollow(ls, p, e) ==
   /\ e > p
   /\ \/ StartsAt(ls, NextNonSpace(ls, e), "tage")
      \/ StartsAt(ls, NextNonSpace(ls, e), "werktage")

\* the 1-based starts of the digits captured by a match that begins at i
CapturesAt(ls, i) == { p \in PrefixEnds(ls, i) : DaysFollow(ls, p, DigitsEnd(ls, p)) }

\* parseInt(digits, 10) of a string of decimal digits
RECURSIVE ParseInt(_)
ParseInt(digits) ==
   IF digits = "" THEN 0
   ELSE 10 * ParseInt(SubSeq(digits, 1, Len(digits) - 1))
           + (CHOOSE d \in 0..9 : ToString(d) = Ch(digits, Len(digits)))

\* the deadline captured by the leftmost match, which begins at i
DeadlineAt(ls, i) ==
   IF i = 0 THEN [ defined |-> FALSE ]
   ELSE [ defined |-> TRUE,
          days |-> ParseInt(SubSeq(ls, Min(CapturesAt(ls, i)),
                                   DigitsEnd(ls, Min(CapturesAt(ls, i))) - 1)) ]

DeadlineIn(ls) == DeadlineAt(ls, MinOr({ i \in 1..Len(ls) : CapturesAt(ls, i) # {} }, 0))

extractDeadlineDays(text) == DeadlineIn(toLowerCase(text))

\* the deadlineDays field of extractData's result, the one analyzeText reads
extractData(text) == [ deadlineDays |-> extractDeadlineDays(text) ]

(***************************************************************************)
(* Highlight projector                                                     *)
(***************************************************************************)
getKeywordUrgency(keyword) ==
   IF IsKeywordOf(RED_KEYWORDS, keyword) THEN "red"
   ELSE IF IsKeywordOf(YELLOW_KEYWORDS, keyword) THEN "yellow"
   ELSE "green"

RECURSIVE Ascending(_)
Ascending(S) == IF S = {} THEN << >> ELSE << Min(S) >> \o Ascending(S \ {Min(S)})

\* the [start, end) offsets (0-based) of every occurrence, overlapping ones included
Occurrences(lowerText, lowerKeyword) ==
   Ascending({ i \in 0..(Len(lowerText) - Len(lowerKeyword)) :
                  SubSeq(lowerText, i + 1, i + Len(lowerKeyword)) = lowerKeyword })

PositionsAt(starts, length) ==
   [ n \in 1..Len(starts) |-> [ start |-> starts[n], end |-> starts[n] + length ] ]

findKeywordPositions(text, keyword) ==
   PositionsAt(Occurrences(toLowerCase(text), toLowerCase(keyword)), Len(keyword))

\* the spans pushed for one keyword definition in one unit (a sentence, or
\* the subject line) that starts at the absolute offset unitStart
SpansAt(def, unit, unitStart, isBetreff, positions, evaluation) ==
   [ n \in 1..Len(positions) |->
        [ keyword |-> def.keyword,
          start |-> unitStart + positions[n].start,
          end |-> unitStart + positions[n].end,
          urgency |-> getKeywordUrgency(def.keyword),
          category |-> def.category,
          isNeutralized |-> evaluation.isNeutralized,
          reason |-> evaluation.reason,
          originalWeight |-> evaluation.originalWeight,
          effectiveWeight |-> evaluation.effectiveWeight,
          sentenceContext |-> IF isBetreff THEN "Betreff: " \o unit ELSE unit ] ]

SpansOfKeyword(def, unit, unitStart, isBetreff, body) ==
   SpansAt(def, unit, unitStart, isBetreff, findKeywordPositions(unit, def.keyword),
           IF isBetreff
           THEN evaluateBetreffKeywordWithBodyContext(def.keyword, def.category, def.weight,
                                                      unit, body)
           ELSE evaluateKeywordInContext(unit, def.keyword, def.category, def.weight))

\* the spans the two nested loops (keywords, then positions) visit for one
\* unit, from the d-th keyword on, in visiting order and before the
\* processedPositions filter; body is the body when the unit is the subject
RECURSIVE SpansOfUnit(_, _, _, _, _)
SpansOfUnit(unit, unitStart, isBetreff, body, d) ==
   IF d > Len(ALL_KEYWORDS) THEN << >>
   ELSE SpansOfKeyword(ALL_KEYWORDS[d], unit, unitStart, isBetreff, body)
           \o SpansOfUnit(unit, unitStart, isBetreff, body, d + 1)

\* the spans of the sentences from the n-th on; searchStart advances past a
\* located sentence only when advance is TRUE (the branch without a subject
\* line), and a sentence that text.indexOf does not find is skipped
RECURSIVE SpansOfSentences(_, _, _, _, _)
SpansFrom(text, sentences, n, searchStart, advance, sentenceStart) ==
   IF sentenceStart = -1
   THEN SpansOfSentences(text, sentences, n + 1, searchStart, advance)
   ELSE SpansOfUnit(sentences[n], sentenceStart, FALSE, "", 1)
           \o SpansOfSentences(text, sentences, n + 1,
                 IF advance THEN sentenceStart + Len(sentences[n]) ELSE searchStart,
                 advance)

SpansOfSentences(text, sentences, n, searchStart, advance) ==
   IF n > Len(sentences) THEN << >>
   ELSE SpansFrom(text, sentences, n, searchStart, advance,
                  IndexOf(text, sentences[n], searchStart))

\* faulty variant of the processedPositions filter: nothing is skipped
SkipProcessed_keepAll(spans, n, processedPositions) == spans

\* the processedPositions filter: a span is dropped when an earlier one has
\* the same `${start}-${end}' key
RECURSIVE SkipProcessed(_, _, _)
SkipProcessed(spans, n, processedPositions) ==
   IF n > Len(spans) THEN << >>
   ELSE IF << spans[n].start, spans[n].end >> \in processedPositions
        THEN SkipProcessed(spans, n + 1, processedPositions)
        ELSE << spans[n] >>
                \o SkipProcessed(spans, n + 1,
                                 processedPositions \cup { << spans[n].start, spans[n].end >> })

\* spans.sort((a, b) => a.start - b.start), a stable sort
RECURSIVE SortByStart(_)
MoveFirst(spans, first) ==
   << spans[first] >>
      \o SortByStart([ n \in 1..(Len(spans) - 1) |-> IF n < first THEN spans[n] ELSE spans[n + 1] ])

FirstStartingAt(spans, least) == Min({ n \in 1..Len(spans) : spans[n].start = least })

SortByStart(spans) ==
   IF Len(spans) = 0 THEN << >>
   ELSE MoveFirst(spans, FirstStartingAt(spans, Min({ spans[n].start : n \in 1..Len(spans) })))

\* the spans of both loops in visiting order
VisitedSpans(text, betreffExtraction) ==
   IF betreffExtraction.found
   THEN SpansOfUnit(betreffExtraction.betreff, betreffExtraction.betreffStart, TRUE,
                    betreffExtraction.body, 1)
           \o SpansOfSentences(text, splitIntoSentences(betreffExtraction.body), 1,
                               MinOr({ IndexOf(text, betreffExtraction.body, 0) } \ { -1 }, 0),
                               FALSE)
   ELSE SpansOfSentences(text, splitIntoSentences(text), 1, 0, TRUE)

ActiveCount(spans, urgency) ==
   Cardinality({ n \in 1..Len(spans) : ~spans[n].isNeutralized /\ spans[n].urgency = urgency })

HighlightResult(spans) ==
   [ spans |-> spans,
     activeCount |-> [ red |-> ActiveCount(spans, "red"), yellow |-> ActiveCount(spans, "yellow"),
                       green |-> ActiveCount(spans, "green") ],
     neutralizedCount |-> Cardinality({ n \in 1..Len(spans) : spans[n].isNeutralized }) ]

getHighlightSpans(text) ==
   HighlightResult(SortByStart(SkipProcessed(VisitedSpans(text, extractBetreffAndBody(text)), 1, {})))

(***************************************************************************)
(* Inputs.  A generated text is a sequence of at most MaxChunks chunks     *)
(* joined by single blanks: a red and a yellow keyword, one marker of each *)
(* pattern table, a contrastive conjunction, a subject line, a run of five *)
(* filler words (which moves what follows out of the +-5 token window) and *)
(* a sentence delimiter.  ScenarioTexts are letters the specification      *)
(* quotes and letters that exercise the subject line and the green tier.   *)
(***************************************************************************)
MaxChunks == 3

Chunks ==
   { "haftbefehl", "frist", "nicht", "aufgehoben", "abgelehnt", "hinweis", "falls",
     "aber", "Betreff: haftbefehl\n", "a b c d e", "." }

ChunkSeqs == UNION { [ 1..n -> Chunks ] : n \in 0..MaxChunks }

ScenarioTexts ==
   { "Die Zwangsvollstreckung wurde aufgehoben.",
     "Betreff: Haftbefehl\n\nDies ist eine Aktennotiz zur Verfahrenskoordination, kein Handlungsbedarf.",
     "Betreff: Haftbefehl aufgehoben",
     "Betreff: Frist\nHinweis: Der Haftbefehl wurde aufgehoben",
     "Die Mahnung\nBetreff: Frist\nwird erfolgreich",
     "Betreff: haftbefehl\nhaftbefehl",
     "Der Haftbefehl Nr. 5 wurde aufgehoben",
     "frist kein handlungsbedarf",
     "erfolgreich eingetragen",
     "nicht rechtliche a b c d e f rechtliche schritte",
     "Betreff: Haftbefehl\nZur Kenntnis. Der Haftbefehl wurde aufgehoben.",
     "Unter Bezugnahme auf die Mahnung",
     "Der Haftbefehl wurde aufgehoben. Es besteht ein Haftbefehl.",
     "Bezug: Frist\nBetreff: Haftbefehl\nGuten Tag",
     "Betr.: Frist\nBetreff: Haftbefehl aufgehoben",
     "Bezug: Haftbefehl\nBetr.: Frist\nDie Frist wurde aufgehoben.",
     "Bezug: Mahnung\nBetr.: Frist\nBetreff: Haftbefehl\nBetreff: Pfandung",
     "Die Sache ist erledigt",
     "keineswegs a b c d e f g keine weiteren schritte",
     "Guten Tag" }

Texts == { JoinSlice(c, 0, Len(c)) : c \in ChunkSeqs } \cup ScenarioTexts

\* extractedData.deadlineDays: undefined, or a number of days
DeadlineInputs ==
   { [ defined |-> FALSE ] } \cup { [ defined |-> TRUE, days |-> d ] : d \in {3, 10} }

(***************************************************************************)
(* State: the text under analysis and the results of the calls made on it. *)
(* pc follows the page: the text is entered, the preview is highlighted,   *)
(* the analysis runs; evaluateKeywordInContext can also be called on the   *)
(* text directly.                                                          *)
(***************************************************************************)
VARIABLES text, pc, highlight, extractedData, matches, result, evaluated,
          session, page, history, preview, camera, pdf

\* the state of the parts of the application outside the scoring calls: the
\* regular-expression objects with the calls made so far, the page, the
\* history store, the rendered preview, the camera hook and the PDF hook
components == << session, page, history, preview, camera, pdf >>

vars == << text, pc, highlight, extractedData, matches, result, evaluated, components >>

None == [ none |-> TRUE ]

\* the parts that take no part in a specification
ComponentsIdle ==
   /\ session = None
   /\ page = None
   /\ history = None
   /\ preview = None
   /\ camera = None
   /\ pdf = None

Init ==
   /\ text \in Texts
   /\ pc = "input"
   /\ highlight = None
   /\ extractedData = None
   /\ matches = << >>
   /\ result = None
   /\ evaluated = None
   /\ ComponentsIdle

GetHighlightSpans ==
   /\ pc = "input"
   /\ highlight' = getHighlightSpans(text)
   /\ pc' = "highlighted"
   /\ UNCHANGED << text, extractedData, matches, result, evaluated, components >>

AnalyzeText ==
   /\ pc = "highlighted"
   /\ matches' = findKeywordMatchesWithContext(text)
   /\ \E deadlineDays \in DeadlineInputs :
         /\ extractedData' = [ deadlineDays |-> deadlineDays ]
         /\ result' = ScoringResult(matches', deadlineDays)
   /\ pc' = "analyzed"
   /\ UNCHANGED << text, highlight, evaluated, components >>

EvaluateKeywordInContext ==
   /\ pc = "input"
   /\ \E n \in 1..Len(ALL_KEYWORDS) :
         /\ IndexOf(toLowerCase(text), ALL_KEYWORDS[n].keyword, 0) # -1
         /\ evaluated' = evaluateKeywordInContext(text, ALL_KEYWORDS[n].keyword,
                            ALL_KEYWORDS[n].category, ALL_KEYWORDS[n].weight)
   /\ pc' = "evaluated"
   /\ UNCHANGED << text, highlight, extractedData, matches, result, components >>

Next == GetHighlightSpans \/ AnalyzeText \/ EvaluateKeywordInContext

Spec == Init /\ [][Next]_vars

(***************************************************************************)
(* The score aggregator on its own: the collected matches are drawn from   *)
(* the evaluations of dictionary keywords of every tier and category in    *)
(* sentences that leave them at full weight, neutralize them or reduce     *)
(* them, at most MaxMatches of them, and the deadline from both sides of   *)
(* every breakpoint of the multiplier.                                     *)
(***************************************************************************)
MaxMatches == 2

SampleKeywords ==
   { def \in { ALL_KEYWORDS[n] : n \in 1..Len(ALL_KEYWORDS) } :
        def.keyword \in { "haftbefehl", "gerichtsvollzieher", "rechtliche schritte", "frist",
                          "erfolgreich", "kein handlungsbedarf" } }

SampleContexts ==
   { "", " nicht", " hinweis", " falls", " a b c d e kein handlungsbedarf" }

SampleMatches ==
   { ExtendedKeywordMatch(evaluateKeywordInContext(def.keyword \o c, def.keyword,
                                                   def.category, def.weight)) :
        def \in SampleKeywords, c \in SampleContexts }

MatchLists == UNION { [ 1..n -> SampleMatches ] : n \in 0..MaxMatches }

AggregatorDeadlines ==
   { [ defined |-> FALSE ] }
      \cup { [ defined |-> TRUE, days |-> d ] : d \in {0, 3, 4, 7, 8, 14, 15} }

InitAggregator ==
   /\ text = None
   /\ pc = "collected"
   /\ highlight = None
   /\ extractedData = None
   /\ matches \in MatchLists
   /\ result = None
   /\ evaluated = None
   /\ ComponentsIdle

\* analyzeText from the collected matches on
Aggregate ==
   /\ pc = "collected"
   /\ \E deadlineDays \in AggregatorDeadlines :
         /\ extractedData' = [ deadlineDays |-> deadlineDays ]
         /\ result' = ScoringResult(matches, deadlineDays)
   /\ pc' = "analyzed"
   /\ UNCHANGED << text, highlight, matches, evaluated, components >>

NextAggregator == Aggregate

SpecAggregator == InitAggregator /\ [][NextAggregator]_vars

(***************************************************************************)
(* The two evaluators called with every base weight up to MaxWeight on a   *)
(* keyword in a mitigating context: one sentence per informational and     *)
(* conditional marker, one letter with a subject line per exclusion        *)
(* pattern and per informational marker.                                   *)
(***************************************************************************)
MaxWeight == 100

MarkerPhrases(patterns) == { toLowerCase(patterns[n].name) : n \in 1..Len(patterns) }

MitigatedTexts ==
   { "haftbefehl a b c d e " \o m : m \in MarkerPhrases(INFORMATIONAL_MARKERS) }
      \cup { "haftbefehl " \o m : m \in MarkerPhrases(CONDITIONAL_MARKERS) }
      \cup { "Betreff: haftbefehl\n" \o m :
                m \in MarkerPhrases(EXCLUSION_PATTERNS) \cup MarkerPhrases(INFORMATIONAL_MARKERS) }

InitWeights ==
   /\ text \in MitigatedTexts
   /\ pc = "input"
   /\ highlight = None
   /\ extractedData = None
   /\ matches = << >>
   /\ result = None
   /\ evaluated = None
   /\ ComponentsIdle

EvaluateKeywordWithWeight ==
   /\ pc = "input"
   /\ ~extractBetreffAndBody(text).found
   /\ \E originalWeight \in 1..MaxWeight :
         evaluated' = evaluateKeywordInContext(text, "haftbefehl", "enforcement", originalWeight)
   /\ pc' = "evaluated"
   /\ UNCHANGED << text, highlight, extractedData, matches, result, components >>

EvaluateBetreffKeywordWithWeight ==
   /\ pc = "input"
   /\ \E betreffExtraction \in { extractBetreffAndBody(text) } :
         /\ betreffExtraction.found
         /\ \E originalWeight \in 1..MaxWeight :
               evaluated' = evaluateBetreffKeywordWithBodyContext("haftbefehl", "enforcement",
                               originalWeight, betreffExtraction.betreff, betreffExtraction.body)
   /\ pc' = "evaluated"
   /\ UNCHANGED << text, highlight, extractedData, matches, result, components >>

NextWeights == EvaluateKeywordWithWeight \/ EvaluateBetreffKeywordWithWeight

SpecWeights == InitWeights /\ [][NextWeights]_vars

(***************************************************************************)
(* The pipeline of the analysis hook: extractData on the text, then        *)
(* analyzeText with the data extracted.  A text is at most MaxSentences    *)
(* pieces joined by single blanks: the two sentences of the letter the     *)
(* specification quotes, a keyword spelled without umlaut, a cancellation, *)
(* and one deadline phrase for each alternative of the deadline pattern.   *)
(***************************************************************************)
MaxSentences == 3

PipelineChunks ==
   { "Es droht eine Pfändung Ihres Kontos.", "Reagieren Sie innerhalb von 3 Tagen.",
     "Der Haftbefehl", "wurde aufgehoben.", "Frist von 10 Tagen", "binnen 7 Werktagen",
     "innerhalb 14 tage" }

PipelineTexts ==
   { JoinSlice(c, 0, Len(c)) : c \in UNION { [ 1..n -> PipelineChunks ] : n \in 0..MaxSentences } }

InitPipeline ==
   /\ text \in PipelineTexts
   /\ pc = "input"
   /\ highlight = None
   /\ extractedData = None
   /\ matches = << >>
   /\ result = None
   /\ evaluated = None
   /\ ComponentsIdle

ExtractData ==
   /\ pc = "input"
   /\ extractedData' = extractData(text)
   /\ pc' = "extracted"
   /\ UNCHANGED << text, highlight, matches, result, evaluated, components >>

\* analyzeText(text, extractedData)
AnalyzeExtracted ==
   /\ pc = "extracted"
   /\ matches' = findKeywordMatchesWithContext(text)
   /\ result' = ScoringResult(matches', extractedData.deadlineDays)
   /\ pc' = "analyzed"
   /\ UNCHANGED << text, highlight, extractedData, evaluated, components >>

NextPipeline == ExtractData \/ AnalyzeExtracted

SpecPipeline == InitPipeline /\ [][NextPipeline]_vars

(***************************************************************************)
(* Letters with subject lines and contrastive clauses.  A generated text   *)
(* is a sequence of at most MaxClauses chunks joined by single blanks: a   *)
(* Betreff and a Bezug line, a red and a yellow keyword, a negator, a      *)
(* cancellation verb, an informational marker and a conjunction.  The page *)
(* highlights the text, then analyzes it.                                  *)
(***************************************************************************)
MaxClauses == 3

CollectorChunks ==
   { "haftbefehl", "frist", "nicht", "aufgehoben", "hinweis", "aber",
     "Betreff: haftbefehl\n", "Bezug: frist\n" }

CollectorTexts ==
   { JoinSlice(c, 0, Len(c)) : c \in UNION { [ 1..n -> CollectorChunks ] : n \in 0..MaxClauses } }
      \cup ScenarioTexts

InitCollector ==
   /\ text \in CollectorTexts
   /\ pc = "input"
   /\ highlight = None
   /\ extractedData = None
   /\ matches = << >>
   /\ result = None
   /\ evaluated = None
   /\ ComponentsIdle

NextCollector == GetHighlightSpans \/ AnalyzeText

SpecCollector == InitCollector /\ [][NextCollector]_vars

(***************************************************************************)
(* splitIntoSentences on its own.  A text is the concatenation of at most  *)
(* MaxParts parts: words, a conjunction in both letter cases, sentence     *)
(* marks with and without a blank behind them, a blank, a line break.  The *)
(* units of the text are computed, then one of them is split again.        *)
(***************************************************************************)
MaxParts == 3

SegmentationParts == { "frist", "x", "aber", "Jedoch", ". ", ";", "!", " ", "\n" }

RECURSIVE Concat(_, _)
Concat(parts, n) == IF n > Len(parts) THEN "" ELSE parts[n] \o Concat(parts, n + 1)

SegmentationTexts ==
   { Concat(c, 1) : c \in UNION { [ 1..n -> SegmentationParts ] : n \in 0..MaxParts } }

InitSegmentation ==
   /\ text \in SegmentationTexts
   /\ pc = "input"
   /\ highlight = None
   /\ extractedData = None
   /\ matches = << >>
   /\ result = None
   /\ evaluated = None
   /\ ComponentsIdle

\* sentences = splitIntoSentences(text)
SplitIntoSentences ==
   /\ pc = "input"
   /\ result' = [ sentences |-> splitIntoSentences(text) ]
   /\ pc' = "split"
   /\ UNCHANGED << text, highlight, extractedData, matches, evaluated, components >>

\* splitIntoSentences(sentence) for one of the sentences returned
SplitSentenceAgain ==
   /\ pc = "split"
   /\ \E n \in 1..Len(result.sentences) :
         evaluated' = [ sentence |-> result.sentences[n],
                        sentences |-> splitIntoSentences(result.sentences[n]) ]
   /\ pc' = "resplit"
   /\ UNCHANGED << text, highlight, extractedData, matches, result, components >>

NextSegmentation == SplitIntoSentences \/ SplitSentenceAgain

SpecSegmentation == InitSegmentation /\ [][NextSegmentation]_vars

(***************************************************************************)
(* analyzeText on degenerate arguments.  A text is the concatenation of at *)
(* most MaxPieces pieces, so that the empty text, whitespace alone, a      *)
(* subject marker with nothing behind it and a subject line without body   *)
(* are among the texts; deadlineDays is undefined, zero, negative or large.*)
(***************************************************************************)
MaxPieces == 3

DegeneratePieces == { " ", "\n", "Betreff:", "Betr.: ", "haftbefehl", "frist", "nicht", "aber", ". " }

DegenerateTexts ==
   { Concat(c, 1) : c \in UNION { [ 1..n -> DegeneratePieces ] : n \in 0..MaxPieces } }

DegenerateDeadlines ==
   { [ defined |-> FALSE ] } \cup { [ defined |-> TRUE, days |-> d ] : d \in {0, -1, 20} }

InitDegenerate ==
   /\ text \in DegenerateTexts
   /\ pc = "extracted"
   /\ highlight = None
   /\ extractedData \in { [ deadlineDays |-> d ] : d \in DegenerateDeadlines }
   /\ matches = << >>
   /\ result = None
   /\ evaluated = None
   /\ ComponentsIdle

NextDegenerate == AnalyzeExtracted

SpecDegenerate == InitDegenerate /\ [][NextDegenerate]_vars

(***************************************************************************)
(* Text normalization.  Every pattern of normalizeText is a sequence of    *)
(* character classes, each taken once or as a run of at least `min'        *)
(* characters; neighbouring classes of a run are disjoint, so the greedy   *)
(* match is the only one.  A replacement keeps the first and the last      *)
(* character of the match (the groups $1 and $2) or neither.               *)
(***************************************************************************)
LowerLetters == CharsOf("abcdefghijklmnopqrstuvwxyz")

DigitChars == CharsOf("0123456789")

One(chars) == [ chars |-> chars, min |-> 1, many |-> FALSE ]

Run(chars, min) == [ chars |-> chars, min |-> min, many |-> TRUE ]

\* the classes of a literal
Lit(lit) == [ n \in 1..Len(lit) |-> One({ Ch(lit, n) }) ]

Rule(elements, ci, wordBounded, keepEnds, replacement) ==
   [ elements |-> elements, ci |-> ci, wordBounded |-> wordBounded,
     keepEnds |-> keepEnds, replacement |-> replacement ]

OCR_CORRECTIONS ==
   << Rule(<< Run({"l"}, 2) >>, FALSE, FALSE, FALSE, "ll"),
      Rule(<< One(LowerLetters), One({"0"}), One(LowerLetters) >>, TRUE, FALSE, TRUE, "o"),
      Rule(<< One(LowerLetters), One({"1"}), One(LowerLetters) >>, TRUE, FALSE, TRUE, "l"),
      Rule(<< One(LowerLetters), One({"5"}), One(LowerLetters) >>, TRUE, FALSE, TRUE, "s"),
      Rule(Lit("rn"), FALSE, FALSE, FALSE, "m"),
      Rule(Lit("ä"), FALSE, FALSE, FALSE, "ä"),
      Rule(Lit("ö"), FALSE, FALSE, FALSE, "ö"),
      Rule(Lit("ü"), FALSE, FALSE, FALSE, "ü"),
      Rule(Lit("ß"), FALSE, FALSE, FALSE, "ß"),
      Rule(Lit("mahn") \o << Run(SpaceChars, 0) >> \o Lit("ung"), TRUE, TRUE, FALSE, "Mahnung"),
      Rule(Lit("zah") \o << Run(SpaceChars, 0) >> \o Lit("lung"), TRUE, TRUE, FALSE, "Zahlung"),
      Rule(Lit("for") \o << Run(SpaceChars, 0) >> \o Lit("de") \o << Run(SpaceChars, 0) >>
              \o Lit("rung"), TRUE, TRUE, FALSE, "Forderung"),
      Rule(Lit("voll") \o << Run(SpaceChars, 0) >> \o Lit("stre") \o << Run(SpaceChars, 0) >>
              \o Lit("ckung"), TRUE, TRUE, FALSE, "Vollstreckung"),
      Rule(Lit("zahl ungs"), TRUE, FALSE, FALSE, "Zahlungs"),
      Rule(Lit("mahn gebühren"), TRUE, FALSE, FALSE, "Mahngebühren"),
      Rule(Lit("voll streck"), TRUE, FALSE, FALSE, "Vollstreck") >>

\* fixCurrencyAmounts
CURRENCY_FIXES ==
   << Rule(<< One(DigitChars), Run(SpaceChars, 1), One({"."}), One(DigitChars) >>,
           FALSE, FALSE, TRUE, "."),
      Rule(<< One(DigitChars), One({"."}), Run(SpaceChars, 1), One(DigitChars) >>,
           FALSE, FALSE, TRUE, "."),
      Rule(<< One(DigitChars), Run(SpaceChars, 1), One({","}), One(DigitChars) >>,
           FALSE, FALSE, TRUE, ",") >>

\* normalizeWhitespace, before the trim
WHITESPACE_FIXES ==
   << Rule(Lit("\t"), FALSE, FALSE, FALSE, " "),
      Rule(<< One({" "}), Run({" "}, 1) >>, FALSE, FALSE, FALSE, " "),
      Rule(<< Run({"\n"}, 3) >>, FALSE, FALSE, FALSE, "\n\n") >>

\* the first position from p on whose character is outside the class
RunEnd(h, p, chars) == MinOr({ j \in p..Len(h) : Ch(h, j) \notin chars }, Len(h) + 1)

\* the position after the k-th and the following elements matched from p in
\* the haystack h, 0 when they do not match there
RECURSIVE ElementsEnd(_, _, _, _)
ElementTaken(h, p, e, elements, k) ==
   IF e - p < elements[k].min THEN 0 ELSE ElementsEnd(h, e, elements, k + 1)

ElementsEnd(h, p, elements, k) ==
   IF k > Len(elements) THEN p
   ELSE ElementTaken(h, p,
           IF elements[k].many THEN RunEnd(h, p, elements[k].chars)
           ELSE IF p <= Len(h) /\ Ch(h, p) \in elements[k].chars THEN p + 1 ELSE p,
           elements, k)

\* the position after the match of the rule at p, 0 when there is none
BoundedEnd(h, p, e, wordBounded) ==
   IF e # 0 /\ wordBounded /\ ~(WordBoundary(h, p) /\ WordBoundary(h, e)) THEN 0 ELSE e

MatchEnd(h, p, rule) == BoundedEnd(h, p, ElementsEnd(h, p, rule.elements, 1), rule.wordBounded)

Replacement(s, p, e, rule) ==
   IF rule.keepEnds THEN Ch(s, p) \o rule.replacement \o Ch(s, e - 1) ELSE rule.replacement

\* the first position from p on where the rule matches, 0 when there is none
NextMatch(h, p, rule) == MinOr({ j \in p..Len(h) : MatchEnd(h, j, rule) # 0 }, 0)

\* s.replace(pattern, replacement) with the g flag, from the position p;
\* h is the text the pattern is matched on (lowered for the i flag), m the
\* start of the next match and e the position after it
RECURSIVE ReplaceAll(_, _, _, _)
ReplaceRule(s, h, p, m, e, rule) ==
   SubSeq(s, p, m - 1) \o Replacement(s, m, e, rule) \o ReplaceAll(s, h, e, rule)

ReplaceNext(s, h, p, m, rule) ==
   IF m = 0 THEN SubSeq(s, p, Len(s)) ELSE ReplaceRule(s, h, p, m, MatchEnd(h, m, rule), rule)

ReplaceAll(s, h, p, rule) ==
   CHOOSE out \in { ReplaceNext(s, h, p, m, rule) : m \in { NextMatch(h, p, rule) } } : TRUE

ApplyRule(s, rule) ==
   CHOOSE out \in { ReplaceAll(s, h, 1, rule) :
                       h \in { IF rule.ci THEN toLowerCase(s) ELSE s } } : TRUE

\* the rules from the n-th on, applied one after the other
RECURSIVE ApplyRules(_, _, _)
ApplyRules(s, rules, n) ==
   IF n > Len(rules) THEN s
   ELSE CHOOSE out \in { ApplyRules(corrected, rules, n + 1) :
                            corrected \in { ApplyRule(s, rules[n]) } } : TRUE

applyCorrections(s) == ApplyRules(s, OCR_CORRECTIONS, 1)

fixCurrencyAmounts(s) == ApplyRules(s, CURRENCY_FIXES, 1)

normalizeWhitespace(s) == trim(ApplyRules(s, WHITESPACE_FIXES, 1))

normalizeText(rawText) == normalizeWhitespace(fixCurrencyAmounts(applyCorrections(rawText)))

(***************************************************************************)
(* Validation and the page.  The page exists in two builds: one shows a    *)
(* preview before the analysis (withPreview), the other analyzes at once.  *)
(* A file or a camera capture is extracted asynchronously; while it is     *)
(* pending the page shows the spinner and offers no input.                 *)
(***************************************************************************)
Absent == [ present |-> FALSE ]

Present(value) == [ present |-> TRUE, value |-> value ]

MinLetterLength == 20

\* faulty variant of validateLetter: the length of the raw text is tested
validateLetter_rawLength(t) ==
   IF Len(t) < MinLetterLength
   THEN [ isValidLetter |-> FALSE, text |-> normalizeText(t),
          message |-> Present("Dokument zu kurz für automatische Analyse.") ]
   ELSE [ isValidLetter |-> TRUE, text |-> normalizeText(t), message |-> Absent ]

Validated(cleanedText) ==
   IF Len(cleanedText) < MinLetterLength
   THEN [ isValidLetter |-> FALSE, text |-> cleanedText,
          message |-> Present("Dokument zu kurz für automatische Analyse.") ]
   ELSE [ isValidLetter |-> TRUE, text |-> cleanedText, message |-> Absent ]

validateLetter(t) == Validated(normalizeText(t))

\* useScoring.analyze
AnalysisOf(rawText, normalizedText) ==
   [ rawText |-> rawText, normalizedText |-> normalizedText,
     scoring |-> analyzeText(normalizedText, extractData(normalizedText)) ]

analyze(rawText) == AnalysisOf(rawText, normalizeText(rawText))

\* texts typed, or read from a file or a capture: empty, blank, short,
\* of 19 and of 20 characters, long only before the normalization, letters
PageTexts ==
   { "", "   ", "zu kurz", "neunzehn zeichen ab", "Der Text hat zwanzig",
     "Mahn ung   zur   Frist", "alllllllllllllllll rn",
     "  Der Haftbefehl wurde aufgehoben.  ", "Letzte Mahnung: Frist von 3 Tagen" }

InitPage ==
   /\ text = ""
   /\ pc = "page"
   /\ highlight = None
   /\ extractedData = None
   /\ matches = << >>
   /\ result = None
   /\ evaluated = None
   /\ session = None
   /\ \E withPreview \in BOOLEAN :
         page = [ withPreview |-> withPreview, inputMode |-> "upload", textInput |-> "",
                  validationError |-> Absent, previewText |-> Absent,
                  analysisResult |-> Absent, pending |-> FALSE, last |-> "none" ]
   /\ history = None
   /\ preview = None
   /\ camera = None
   /\ pdf = None

PageOnly == UNCHANGED << text, pc, highlight, extractedData, matches, result, evaluated,
                         session, history, preview, camera, pdf >>

\* the main input UI is rendered
InputShown ==
   ~page.analysisResult.present /\ ~page.previewText.present /\ ~page.pending

\* what both handlers do with the text once they have it
AfterValidation(shown, validation) ==
   IF ~validation.isValidLetter
   THEN [ shown EXCEPT !.validationError = validation.message, !.last = "validationFailed" ]
   ELSE IF shown.withPreview
   THEN [ shown EXCEPT !.previewText = Present(validation.text), !.last = "validated" ]
   ELSE [ shown EXCEPT !.analysisResult = Present(analyze(validation.text)),
                       !.last = "validated" ]

SetInputMode ==
   /\ InputShown
   /\ \E inputMode \in {"upload", "camera", "text"} :
         page' = [ page EXCEPT !.inputMode = inputMode, !.validationError = Absent,
                               !.last = "setInputMode" ]
   /\ PageOnly

\* onChange of the textarea
SetTextInput ==
   /\ InputShown
   /\ page.inputMode = "text"
   /\ \E value \in PageTexts :
         page' = [ page EXCEPT !.textInput = value, !.validationError = Absent,
                               !.last = "setTextInput" ]
   /\ PageOnly

\* the button is disabled while the trimmed input is empty
HandleTextAnalysis ==
   /\ InputShown
   /\ page.inputMode = "text"
   /\ trim(page.textInput) # ""
   /\ page' = AfterValidation([ page EXCEPT !.validationError = Absent ],
                              validateLetter(page.textInput))
   /\ PageOnly

\* handleFileAnalysis up to its await
HandleFileAnalysis ==
   /\ InputShown
   /\ page.inputMode \in {"upload", "camera"}
   /\ page' = [ page EXCEPT !.validationError = Absent, !.pending = TRUE,
                            !.last = "handleFileAnalysis" ]
   /\ PageOnly

\* extractPDFText or processImage resolves with a text
FileTextExtracted ==
   /\ page.pending
   /\ \E extracted \in PageTexts :
         page' = AfterValidation([ page EXCEPT !.pending = FALSE ], validateLetter(extracted))
   /\ PageOnly

\* extractPDFText or processImage rejects: the catch logs the error
FileExtractionFailed ==
   /\ page.pending
   /\ page' = [ page EXCEPT !.pending = FALSE, !.last = "extractionFailed" ]
   /\ PageOnly

HandleProceedToAnalysis ==
   /\ page.previewText.present /\ ~page.analysisResult.present
   /\ page' = [ page EXCEPT !.analysisResult = Present(analyze(page.previewText.value)),
                            !.last = "handleProceedToAnalysis" ]
   /\ PageOnly

HandleBackToInput ==
   /\ page.previewText.present /\ ~page.analysisResult.present
   /\ page' = [ page EXCEPT !.previewText = Absent, !.last = "handleBackToInput" ]
   /\ PageOnly

HandleReset ==
   /\ page.analysisResult.present
   /\ page' = [ page EXCEPT !.analysisResult = Absent, !.previewText = Absent,
                            !.validationError = Absent, !.textInput = "",
                            !.last = "handleReset" ]
   /\ PageOnly

NextPage ==
   \/ SetInputMode \/ SetTextInput \/ HandleTextAnalysis \/ HandleFileAnalysis
   \/ FileTextExtracted \/ FileExtractionFailed \/ HandleProceedToAnalysis
   \/ HandleBackToInput \/ HandleReset

SpecPage == InitPage /\ [][NextPage]_vars

(***************************************************************************)
(* A session: calls of splitIntoSentences, analyzeText and                 *)
(* getHighlightSpans in any order.  The only regular expression with the   *)
(* g flag is CONTRASTIVE_CONJUNCTIONS, a module-level object shared by all *)
(* calls; its lastIndex is the state a call could leave behind.  The       *)
(* patterns of the tables carry the i flag only, and test() on them        *)
(* neither reads nor writes lastIndex.                                     *)
(***************************************************************************)
MaxCalls == 3

SessionTexts ==
   { "", "nicht haftbefehl", "frist aber haftbefehl",
     "Betreff: haftbefehl\nhaftbefehl aufgehoben. jedoch frist" }

\* the end (0-based, exclusive) of the first conjunction at or after the
\* 0-based index from, 0 when there is none: lastIndex after one exec
FirstConjunctionEnd(ls, i) ==
   IF i = 0 THEN 0 ELSE i - 1 + Len(CHOOSE c \in ConjunctionAt(ls, i) : TRUE)

\* the text with ". " put before the conjunction at the 1-based position i
\* (0: nowhere)
SplitBefore(s, i) ==
   IF i = 0 THEN s ELSE SubSeq(s, 1, i - 1) \o ". " \o SubSeq(s, i, Len(s))

FirstConjunctionFrom(ls, from) ==
   MinOr({ i \in (from + 1)..Len(ls) : ConjunctionAt(ls, i) # {} }, 0)

\* faulty variant of ContrastiveReplace: the first conjunction is looked up
\* with one exec(), which starts at lastIndex and leaves lastIndex behind
ContrastiveReplace_exec(t, lastIndex) ==
   [ replaced |-> SplitBefore(t, FirstConjunctionFrom(toLowerCase(t), lastIndex)),
     lastIndex |-> FirstConjunctionEnd(toLowerCase(t),
                                       FirstConjunctionFrom(toLowerCase(t), lastIndex)) ]

\* t.replace(CONTRASTIVE_CONJUNCTIONS, ". $1") on the shared object whose
\* lastIndex is given: replace with a global regular expression sets
\* lastIndex to 0 before the search and leaves it at 0
ContrastiveReplace(t, lastIndex) ==
   [ replaced |-> InsertContrastiveSplits(t, toLowerCase(t), 1), lastIndex |-> 0 ]

\* splitIntoSentences with the state of the shared object made explicit
SentencesOf(replacement) ==
   [ sentences |-> SelectSeq(TrimAll(SplitOnDelimiters(replacement.replaced, 1)),
                             LAMBDA p : Len(p) > 0),
     lastIndex |-> replacement.lastIndex ]

SessionDeadlines == { [ defined |-> FALSE ], [ defined |-> TRUE, days |-> 3 ] }

InitSession ==
   /\ text = ""
   /\ pc = "session"
   /\ highlight = None
   /\ extractedData = None
   /\ matches = << >>
   /\ result = None
   /\ evaluated = None
   /\ session = [ lastIndex |-> 0, calls |-> {}, made |-> 0 ]
   /\ page = None
   /\ history = None
   /\ preview = None
   /\ camera = None
   /\ pdf = None

\* the session after a call that returned `returned' and left the shared
\* object at lastIndex
Called(fn, t, deadlineDays, returned, lastIndex) ==
   /\ session' = [ lastIndex |-> lastIndex,
                   calls |-> session.calls \cup { [ fn |-> fn, text |-> t,
                                                    deadlineDays |-> deadlineDays,
                                                    result |-> returned ] },
                   made |-> session.made + 1 ]
   /\ UNCHANGED << text, pc, highlight, extractedData, matches, result, evaluated,
                   page, history, preview, camera, pdf >>

SplitReturned(t, split) ==
   Called("splitIntoSentences", t, None, [ sentences |-> split.sentences ], split.lastIndex)

CallSplitIntoSentences ==
   /\ session.made < MaxCalls
   /\ \E t \in SessionTexts :
         SplitReturned(t, SentencesOf(ContrastiveReplace(t, session.lastIndex)))

\* analyzeText and getHighlightSpans reach the shared object through
\* splitIntoSentences only
CallAnalyzeText ==
   /\ session.made < MaxCalls
   /\ \E t \in SessionTexts : \E deadlineDays \in SessionDeadlines :
         Called("analyzeText", t, deadlineDays,
                analyzeText(t, [ deadlineDays |-> deadlineDays ]),
                ContrastiveReplace(t, session.lastIndex).lastIndex)

CallGetHighlightSpans ==
   /\ session.made < MaxCalls
   /\ \E t \in SessionTexts :
         Called("getHighlightSpans", t, None, getHighlightSpans(t),
                ContrastiveReplace(t, session.lastIndex).lastIndex)

NextSession == CallSplitIntoSentences \/ CallAnalyzeText \/ CallGetHighlightSpans

SpecSession == InitSession /\ [][NextSession]_vars

(***************************************************************************)
(* The history store and the hook over it.  localStorage holds the item    *)
(* under HISTORY_KEY or does not hold it; the item is the JSON text of an  *)
(* array of plain entries, which JSON.parse gives back as it was written.  *)
(* The storage accepts every write (no quota error is raised).             *)
(* An entry carries its id and its timestamp; the clock advances between   *)
(* two saves, and generateEntryId gives a fresh id or, when timestamp and  *)
(* random suffix coincide, the id of the entry saved before; the second    *)
(* entry of a store is the one that may take the id of the first.          *)
(***************************************************************************)
MAX_ENTRIES == 20

MaxSaves == 22

MaxDeletes == 1

loadHistory(stored) == IF ~stored.present THEN << >> ELSE stored.value

\* entries.slice(0, n)
SliceTo(entries, n) == SubSeq(entries, 1, Min({ Len(entries), n }))

\* faulty variant of saveHistory: the limit is not enforced
saveHistory_unlimited(entries) == Present(entries)

saveHistory(entries) == Present(SliceTo(entries, MAX_ENTRIES))

saveHistoryEntry(stored, entry) == saveHistory(<< entry >> \o loadHistory(stored))

deleteHistoryEntry(stored, id) ==
   saveHistory(SelectSeq(loadHistory(stored), LAMBDA e : e.id # id))

clearHistory == Absent

\* the hook after its mount effect, over an empty store
InitHistory ==
   /\ text = ""
   /\ pc = "history"
   /\ highlight = None
   /\ extractedData = None
   /\ matches = << >>
   /\ result = None
   /\ evaluated = None
   /\ session = None
   /\ page = None
   /\ history = [ stored |-> Absent, entries |-> << >>, isLoading |-> FALSE,
                  saves |-> 0, deletes |-> 0,
                  last |-> [ op |-> "none" ] ]
   /\ preview = None
   /\ camera = None
   /\ pdf = None

HistoryOnly == UNCHANGED << text, pc, highlight, extractedData, matches, result, evaluated,
                            session, page, preview, camera, pdf >>

\* the ids generateEntryId can return for the next entry
EntryIds ==
   { history.saves + 1 }
      \cup IF Len(loadHistory(history.stored)) = 1
           THEN { loadHistory(history.stored)[1].id }
           ELSE {}

\* addEntry: createHistoryEntry, saveHistoryEntry, then the local state
Added(entry) ==
   [ history EXCEPT !.stored = saveHistoryEntry(history.stored, entry),
                    !.entries = SliceTo(<< entry >> \o history.entries, 20),
                    !.saves = @ + 1,
                    !.last = [ op |-> "saveHistoryEntry", entry |-> entry,
                               before |-> loadHistory(history.stored) ] ]

AddEntry ==
   /\ history.saves < MaxSaves
   /\ \E id \in EntryIds : history' = Added([ id |-> id, timestamp |-> history.saves + 1 ])
   /\ HistoryOnly

\* deleteEntry, of a stored entry or of an id that is not stored
DeleteEntry ==
   /\ history.deletes < MaxDeletes
   /\ \E id \in { loadHistory(history.stored)[n].id : n \in 1..Len(loadHistory(history.stored)) }
                   \cup { 0 } :
         history' = [ history EXCEPT !.stored = deleteHistoryEntry(history.stored, id),
                                     !.entries = SelectSeq(@, LAMBDA e : e.id # id),
                                     !.deletes = @ + 1,
                                     !.last = [ op |-> "deleteHistoryEntry", id |-> id,
                                                before |-> loadHistory(history.stored) ] ]
   /\ HistoryOnly

\* clearAll
ClearAll ==
   /\ history.last.op # "clearHistory"
   /\ history' = [ history EXCEPT !.stored = clearHistory, !.entries = << >>,
                                  !.last = [ op |-> "clearHistory",
                                             before |-> loadHistory(history.stored) ] ]
   /\ HistoryOnly

NextHistory == AddEntry \/ DeleteEntry \/ ClearAll

SpecHistory == InitHistory /\ [][NextHistory]_vars

(***************************************************************************)
(* TextPreview: the text is shown with the visible spans marked.  The      *)
(* rendered content is the sequence of the <span> elements: plain text     *)
(* between the spans and the text of each span.  The page mounts the       *)
(* preview with both filters on; the controls toggle them.                 *)
(***************************************************************************)
visibleSpans(spans, showNeutralized, showGreen) ==
   SelectSeq(spans, LAMBDA span :
      /\ ~(~showNeutralized /\ span.isNeutralized)
      /\ ~(~showGreen /\ span.urgency = "green" /\ ~span.isNeutralized))

PlainElement(content) == [ highlighted |-> FALSE, content |-> content ]

HighlightElement(t, span) ==
   [ highlighted |-> TRUE, content |-> Substring(t, span.start, span.end) ]

\* the elements pushed for the n-th and the following spans; lastEnd is the
\* end of the span before
RECURSIVE SpanElements(_, _, _, _)
SpanElements(t, sortedSpans, n, lastEnd) ==
   IF n > Len(sortedSpans)
   THEN IF lastEnd < Len(t) THEN << PlainElement(Substring(t, lastEnd, Len(t))) >> ELSE << >>
   ELSE (IF sortedSpans[n].start > lastEnd
         THEN << PlainElement(Substring(t, lastEnd, sortedSpans[n].start)) >>
         ELSE << >>)
           \o << HighlightElement(t, sortedSpans[n]) >>
           \o SpanElements(t, sortedSpans, n + 1, sortedSpans[n].end)

renderedContent(t, visible) ==
   IF Len(visible) = 0 THEN << PlainElement(t) >>
   ELSE SpanElements(t, SortByStart(visible), 1, 0)

TextPreview(t, showNeutralized, showGreen) ==
   [ text |-> t, showNeutralized |-> showNeutralized, showGreen |-> showGreen,
     elements |-> renderedContent(t, visibleSpans(getHighlightSpans(t).spans,
                                                  showNeutralized, showGreen)) ]

InitPreview ==
   /\ text \in CollectorTexts
   /\ pc = "preview"
   /\ highlight = None
   /\ extractedData = None
   /\ matches = << >>
   /\ result = None
   /\ evaluated = None
   /\ session = None
   /\ page = None
   /\ history = None
   /\ preview = TextPreview(text, TRUE, TRUE)
   /\ camera = None
   /\ pdf = None

PreviewOnly == UNCHANGED << text, pc, highlight, extractedData, matches, result, evaluated,
                            session, page, history, camera, pdf >>

\* the control "Neutralisierte anzeigen"
ToggleNeutralized ==
   /\ preview' = TextPreview(text, ~preview.showNeutralized, preview.showGreen)
   /\ PreviewOnly

\* the control "Grüne anzeigen"
ToggleGreen ==
   /\ preview' = TextPreview(text, preview.showNeutralized, ~preview.showGreen)
   /\ PreviewOnly

NextPreview == ToggleNeutralized \/ ToggleGreen

SpecPreview == InitPreview /\ [][NextPreview]_vars

(***************************************************************************)
(* The camera hook.  startCamera suspends at getUserMedia, first for the   *)
(* environment camera and, when that is refused, for any camera; the       *)
(* calls in flight are the set `pending'.  A granted request yields a new  *)
(* MediaStream, numbered in the order of arrival, whose tracks run until   *)
(* they are stopped.  After the unmount React drops the state updates.     *)
(***************************************************************************)
MaxStarts == 2

\* the names of the errors getUserMedia rejects with
MediaErrors == { "NotAllowedError", "NotFoundError", "NotReadableError", "TypeError" }

CameraErrorMessage(name) ==
   IF name \in { "NotAllowedError", "PermissionDeniedError" } THEN "Kamerazugriff wurde verweigert"
   ELSE IF name = "NotFoundError" THEN "Keine Kamera gefunden"
   ELSE IF name = "NotReadableError" THEN "Kamera wird bereits verwendet"
   ELSE IF name = "OverconstrainedError" THEN "Kamera-Einstellungen nicht unterstützt"
   ELSE "Kamera konnte nicht gestartet werden"

InitCamera ==
   /\ text = ""
   /\ pc = "camera"
   /\ highlight = None
   /\ extractedData = None
   /\ matches = << >>
   /\ result = None
   /\ evaluated = None
   /\ session = None
   /\ page = None
   /\ history = None
   /\ preview = None
   /\ camera = [ mounted |-> TRUE, isActive |-> FALSE, hasPermission |-> "null",
                 error |-> Absent, streamRef |-> 0, obtained |-> 0, running |-> {},
                 pending |-> {}, starts |-> 0, last |-> "none" ]
   /\ pdf = None

CameraOnly == UNCHANGED << text, pc, highlight, extractedData, matches, result, evaluated,
                           session, page, history, preview, pdf >>

\* setState of a component that may be unmounted by now
SetCameraState(c, isActive, hasPermission, error) ==
   IF c.mounted
   THEN [ c EXCEPT !.isActive = isActive, !.hasPermission = hasPermission, !.error = error ]
   ELSE c

\* getUserMedia resolves for the call: streamRef.current = stream, setState
Granted(c, call) ==
   SetCameraState([ c EXCEPT !.obtained = @ + 1, !.running = @ \cup { c.obtained + 1 },
                             !.streamRef = c.obtained + 1, !.pending = @ \ { call } ],
                  TRUE, "true", Absent)

\* startCamera up to its first await
StartCamera ==
   /\ camera.mounted
   /\ camera.starts < MaxStarts
   /\ camera' = [ camera EXCEPT !.error = Absent, !.starts = @ + 1,
                                !.pending = @ \cup { [ call |-> camera.starts + 1,
                                                        strategy |-> "environment" ] },
                                !.last = "startCamera" ]
   /\ CameraOnly

\* either request is granted
CameraGranted ==
   /\ \E call \in camera.pending : camera' = Granted(camera, call)
   /\ CameraOnly

\* the request for the environment camera is refused: the fallback is requested
EnvironmentRefused ==
   /\ \E call \in camera.pending :
         /\ call.strategy = "environment"
         /\ camera' = [ camera EXCEPT !.pending = (@ \ { call })
                                         \cup { [ call EXCEPT !.strategy = "fallback" ] } ]
   /\ CameraOnly

\* the fallback is refused as well: the catch block reports the error
FallbackRefused ==
   /\ \E call \in camera.pending : \E name \in MediaErrors :
         /\ call.strategy = "fallback"
         /\ camera' = SetCameraState([ camera EXCEPT !.pending = @ \ { call } ],
                                     FALSE, "false", Present(CameraErrorMessage(name)))
   /\ CameraOnly

\* track.stop() for every track of the stream in streamRef
StopTracks(c) == [ c EXCEPT !.running = @ \ { c.streamRef } ]

StopCamera ==
   /\ camera.mounted
   /\ camera.last # "stopCamera"
   /\ camera' = [ StopTracks(camera) EXCEPT !.streamRef = 0, !.isActive = FALSE,
                                            !.last = "stopCamera" ]
   /\ CameraOnly

\* the cleanup of the effect
Unmount ==
   /\ camera.mounted
   /\ camera' = [ StopTracks(camera) EXCEPT !.mounted = FALSE, !.last = "unmount" ]
   /\ CameraOnly

NextCamera ==
   \/ StartCamera \/ CameraGranted \/ EnvironmentRefused \/ FallbackRefused
   \/ StopCamera \/ Unmount

SpecCamera == InitCamera /\ [][NextCamera]_vars

(***************************************************************************)
(* usePDF.extractText.  One run: the PDF is converted to page images       *)
(* (convertPDFToImages, reporting through onProgress), then the images are *)
(* read one by one (batchRecognize).  Each action is the code between two  *)
(* awaits.  `reports' lists the progress values set since the run began,   *)
(* `outcome' is what the promise of the run settled with.                  *)
(***************************************************************************)
MaxPages == 4

\* Math.round(x * 0.5) for an integer x >= 0
RoundHalf(x) == (x + 1) \div 2

\* Math.round((a / b) * k) for integers a >= 0, b > 0, k > 0
RoundRatio(a, b, k) == (2 * a * k + b) \div (2 * b)

\* the progress extractText sets for a report of convertPDFToImages
ConversionProgress(progress) == RoundHalf(progress)

\* the progress convertPDFToImages reports after a page
PageProgress(pageNum, totalPages) == 10 + RoundRatio(pageNum, totalPages, 40)

\* faulty variant of OcrProgress: the first half of the bar is not added
OcrProgress_noOffset(current, total) == RoundHalf(RoundRatio(current, total, 100))

\* totalProgress in the callback given to batchRecognize
OcrProgress(current, total) == 50 + RoundHalf(RoundRatio(current, total, 100))

pdfInitialState == [ isProcessing |-> FALSE, progress |-> 0, status |-> "", error |-> Absent ]

InitPdf ==
   /\ text = ""
   /\ pc = "pdf"
   /\ highlight = None
   /\ extractedData = None
   /\ matches = << >>
   /\ result = None
   /\ evaluated = None
   /\ session = None
   /\ page = None
   /\ history = None
   /\ preview = None
   /\ camera = None
   /\ pdf = [ state |-> pdfInitialState, stage |-> "idle", totalPages |-> 0, pageNum |-> 0,
              images |-> 0, recognized |-> 0, reports |-> << >>, outcome |-> [ kind |-> "none" ] ]

PdfOnly == UNCHANGED << text, pc, highlight, extractedData, matches, result, evaluated,
                        session, page, history, preview, camera >>

\* setState((prev) => ({ ...prev, progress, status }))
Report(p, progress, status) ==
   [ p EXCEPT !.state.progress = progress, !.state.status = status,
              !.reports = Append(@, progress) ]

\* the catch block of extractText; thrown is the value caught
Caught(p, thrown) ==
   [ p EXCEPT !.state = [ isProcessing |-> FALSE, progress |-> 0, status |-> "",
                          error |-> Present(IF thrown.isError THEN thrown.message
                                            ELSE "PDF-Verarbeitung fehlgeschlagen") ],
              !.stage = "idle",
              !.outcome = [ kind |-> "rejected", thrown |-> thrown ] ]

ErrorOf(message) == [ isError |-> TRUE, message |-> message ]

\* extractText up to its first await
ExtractText ==
   /\ pdf.stage = "idle"
   /\ pdf' = [ pdf EXCEPT !.state = [ isProcessing |-> TRUE, progress |-> 0,
                                      status |-> "Starte PDF-Verarbeitung...", error |-> Absent ],
                          !.stage = "importing", !.totalPages = 0, !.pageNum = 0,
                          !.images = 0, !.recognized = 0, !.reports = << 0 >>,
                          !.outcome = [ kind |-> "none" ] ]
   /\ PdfOnly

\* the module is imported and convertPDFToImages begins
ConversionStarted ==
   /\ pdf.stage = "importing"
   /\ pdf' = [ Report(pdf, ConversionProgress(0), "Lade PDF-Bibliothek...")
                  EXCEPT !.stage = "loadingLibrary" ]
   /\ PdfOnly

\* pdfjs-dist is imported
LibraryLoaded ==
   /\ pdf.stage = "loadingLibrary"
   /\ pdf' = [ Report(pdf, ConversionProgress(5), "Lade PDF...") EXCEPT !.stage = "loadingPdf" ]
   /\ PdfOnly

\* the document is loaded and has totalPages pages
DocumentLoaded ==
   /\ pdf.stage = "loadingPdf"
   /\ \E totalPages \in 0..MaxPages :
         pdf' = [ Report(pdf, ConversionProgress(10), "Verarbeite Seiten...")
                     EXCEPT !.stage = "converting", !.totalPages = totalPages ]
   /\ PdfOnly

\* a page is rendered; canvas.toBlob gives a blob or null
PageConverted ==
   /\ pdf.stage = "converting"
   /\ pdf.pageNum < pdf.totalPages
   /\ \E blob \in BOOLEAN :
         pdf' = [ Report(pdf, ConversionProgress(PageProgress(pdf.pageNum + 1, pdf.totalPages)),
                         "Konvertiere Seite...")
                     EXCEPT !.pageNum = @ + 1, !.images = IF blob THEN @ + 1 ELSE @ ]
   /\ PdfOnly

\* an import, the loading or the rendering fails: convertPDFToImages wraps
\* the error, extractText catches it
ConversionFailed ==
   /\ pdf.stage \in { "importing", "loadingLibrary", "loadingPdf", "converting" }
   /\ pdf.stage = "converting" => pdf.pageNum < pdf.totalPages
   /\ pdf' = Caught(pdf, ErrorOf(IF pdf.stage = "importing" THEN "Failed to fetch"
                                 ELSE "Fehler bei der PDF-Umwandlung: Invalid PDF"))
   /\ PdfOnly

\* convertPDFToImages returns its images
ConversionReturned ==
   /\ pdf.stage = "converting"
   /\ pdf.pageNum = pdf.totalPages
   /\ pdf' = IF pdf.images = 0
             THEN Caught(pdf, ErrorOf("Keine Seiten im PDF gefunden"))
             ELSE [ Report(pdf, 50, "Starte Texterkennung (OCR)...")
                       EXCEPT !.stage = "recognizing" ]
   /\ PdfOnly

\* worker.recognize resolves for the next image
PageRecognized ==
   /\ pdf.stage = "recognizing"
   /\ pdf.recognized < pdf.images
   /\ pdf' = [ Report(pdf, OcrProgress(pdf.recognized + 1, pdf.images), "Analysiere Seite...")
                  EXCEPT !.recognized = @ + 1 ]
   /\ PdfOnly

\* the import of the OCR module, createWorker or recognize rejects, with an
\* Error or with another value
OcrFailed ==
   /\ pdf.stage = "recognizing"
   /\ pdf.recognized < pdf.images
   /\ \E thrown \in { ErrorOf("Worker failed"), [ isError |-> FALSE, message |-> "" ] } :
         pdf' = Caught(pdf, thrown)
   /\ PdfOnly

\* batchRecognize returns the texts
OcrReturned ==
   /\ pdf.stage = "recognizing"
   /\ pdf.recognized = pdf.images
   /\ pdf' = [ pdf EXCEPT !.state.isProcessing = FALSE, !.state.progress = 100,
                          !.state.status = "Abgeschlossen", !.reports = Append(@, 100),
                          !.stage = "idle", !.outcome = [ kind |-> "resolved" ] ]
   /\ PdfOnly

\* reset, which the page calls from handleReset
ResetPdf ==
   /\ pdf.stage = "idle"
   /\ pdf.outcome.kind = "resolved"
   /\ pdf' = [ pdf EXCEPT !.state = pdfInitialState, !.reports = << >>,
                          !.outcome = [ kind |-> "none" ] ]
   /\ PdfOnly

NextPdf ==
   \/ ExtractText \/ ConversionStarted \/ LibraryLoaded \/ DocumentLoaded \/ PageConverted
   \/ ConversionFailed \/ ConversionReturned \/ PageRecognized \/ OcrFailed \/ OcrReturned
   \/ ResetPdf

SpecPdf == InitPdf /\ [][NextPdf]_vars

(***************************************************************************)
(* Properties                                                              *)
(***************************************************************************)
HasPrefix(s, prefix) == StartsAt(s, 1, prefix)

HasSuffix(s, suffix) == StartsAt(s, Len(s) - Len(suffix) + 1, suffix)

\* the cancellation verbs the statement of C1 lists
C1_Verbs ==
   { "aufgehoben", "widerrufen", "zurückgenommen", "eingestellt", "erledigt", "beendet",
     "abgeschlossen" }

C1_VerbIn(lowerText) == \E verb \in C1_Verbs : RegexTest(<< {verb} >>, lowerText)

C1_HasVerb == C1_VerbIn(toLowerCase(text))

C1_RedKeywordIn(lowerText) ==
   \E n \in 1..Len(RED_KEYWORDS) : Includes(lowerText, RED_KEYWORDS[n].keyword)

C1_HasRedKeyword == C1_RedKeywordIn(toLowerCase(text))

\* the evaluator half of C1: a red keyword evaluated in a sentence that holds
\* a cancellation verb anywhere gets effective weight 0 and is neutralized
C1_Evaluator ==
   (pc = "evaluated" /\ IsKeywordOf(RED_KEYWORDS, evaluated.keyword) /\ C1_HasVerb)
      => (evaluated.effectiveWeight = 0 /\ evaluated.isNeutralized)

\* C1 as stated: a red keyword in a sentence with a cancellation verb anywhere
\* in it (inside the +-5 word window or not) is neutralized by
\* evaluateKeywordInContext, and analyzeText of a text that is that one
\* sentence scores 0
C1_Original ==
   /\ C1_Evaluator
   /\ (pc = "analyzed" /\ C1_HasRedKeyword /\ C1_HasVerb
          /\ Len(splitIntoSentences(text)) = 1)
         => result.score = 0

\* C1 amended: as C1, with analyzeText scoring 0 for the one-sentence texts in
\* which no subject line (Betreff, Betr., Bezug) is detected
C1_CancellationAnywhere ==
   /\ C1_Evaluator
   /\ (pc = "analyzed" /\ C1_HasRedKeyword /\ C1_HasVerb
          /\ Len(splitIntoSentences(text)) = 1 /\ ~extractBetreffAndBody(text).found)
         => result.score = 0

\* a red keyword whose cancellation verb lies outside the +-5 word window
C1_Witness ==
   /\ pc = "analyzed"
   /\ text = "haftbefehl a b c d e aufgehoben"
   /\ Len(matches) = 1 /\ matches[1].isNeutralized
   /\ result.score = 0

\* the text each rule of evaluateKeywordInContext tests for the evaluated keyword
C2_Window ==
   windowText(tokenize(text), findKeywordTokenIndex(tokenize(text), evaluated.keyword),
              Len(SplitWhitespace(evaluated.keyword, 1)), toLowerCase(text))

C2_Negator == FirstMatching(STRONG_NEGATORS, C2_Window) # 0

C2_Verb == FirstMatching(CANCELLATION_VERBS, toLowerCase(text)) # 0

C2_Rejection == FirstMatching(REJECTION_PATTERNS, C2_Window) # 0

C2_Informational == FirstMatching(INFORMATIONAL_MARKERS, toLowerCase(text))

C2_Conditional == FirstMatching(CONDITIONAL_MARKERS, C2_Window)

\* C2: the first applicable rule of negator, cancellation verb, rejection,
\* informational marker, conditional marker, default decides; so a keyword
\* with a neutralizing pattern and a mitigation marker is neutralized with
\* weight 0, and one with an informational and a conditional marker gets the
\* informational reduction alone
C2_Rules(negator, verb, rejection, informational, conditional) ==
   /\ (negator \/ verb \/ rejection)
         => (evaluated.effectiveWeight = 0 /\ evaluated.isNeutralized)
   /\ negator => HasPrefix(evaluated.reason, "Negiert durch")
   /\ (~negator /\ verb) => HasPrefix(evaluated.reason, "Aufgehoben/Erledigt")
   /\ (~negator /\ ~verb /\ rejection) => HasPrefix(evaluated.reason, "Abgelehnt")
   /\ (~negator /\ ~verb /\ ~rejection /\ informational # 0)
         => /\ HasPrefix(evaluated.reason, "Nur zur Information")
            /\ ~evaluated.isNeutralized
            /\ evaluated.effectiveWeight =
                  reducedWeight(evaluated.originalWeight,
                                INFORMATIONAL_MARKERS[informational].reduction)
   /\ (~negator /\ ~verb /\ ~rejection /\ informational = 0 /\ conditional # 0)
         => /\ HasPrefix(evaluated.reason, "Bedingt")
            /\ ~evaluated.isNeutralized
            /\ evaluated.effectiveWeight =
                  reducedWeight(evaluated.originalWeight,
                                CONDITIONAL_MARKERS[conditional].reduction)
   /\ (~negator /\ ~verb /\ ~rejection /\ informational = 0 /\ conditional = 0)
         => /\ evaluated.reason = "Direkte/handlungsrelevante Aussage"
            /\ ~evaluated.isNeutralized
            /\ evaluated.effectiveWeight = evaluated.originalWeight

C2_RuleOrder ==
   pc = "evaluated" =>
      C2_Rules(C2_Negator, C2_Verb, C2_Rejection, C2_Informational, C2_Conditional)

\* a keyword with an informational and a conditional marker and no neutralizer
C2_Witness ==
   /\ pc = "evaluated"
   /\ text = "haftbefehl hinweis falls"
   /\ C2_Informational # 0 /\ C2_Conditional # 0
   /\ evaluated.effectiveWeight = 70

\* effective weights of the non-neutralized matches of a tier
C3_Active(tier) ==
   { matches[n].effectiveWeight :
        n \in { k \in 1..Len(matches) :
                   ~matches[k].isNeutralized /\ IsKeywordOf(tier, matches[k].keyword) } }

C3_Round(weight) ==
   (weight * getDeadlineMultiplier(extractedData.deadlineDays) + 50) \div 100

\* C3: the score is min(100, round(max red x multiplier)) when a red keyword
\* is active, else min(79, round(max yellow x multiplier)) when a yellow one
\* is, else min(39, max green) when a green one is, else 0; and 0 <= score <= 100
C3_ScoreFormula ==
   pc = "analyzed" =>
      /\ result.score =
            IF C3_Active(RED_KEYWORDS) # {}
            THEN Min({ 100, C3_Round(Max(C3_Active(RED_KEYWORDS))) })
            ELSE IF C3_Active(YELLOW_KEYWORDS) # {}
            THEN Min({ 79, C3_Round(Max(C3_Active(YELLOW_KEYWORDS))) })
            ELSE IF C3_Active(GREEN_KEYWORDS) # {}
            THEN Min({ 39, Max(C3_Active(GREEN_KEYWORDS)) })
            ELSE 0
      /\ result.score \in 0..100

\* an active red keyword next to a heavier active yellow one, scored with a
\* deadline of three days
C3_Witness ==
   /\ pc = "analyzed"
   /\ C3_Active(RED_KEYWORDS) # {} /\ C3_Active(YELLOW_KEYWORDS) # {}
   /\ Max(C3_Active(YELLOW_KEYWORDS)) > Max(C3_Active(RED_KEYWORDS))
   /\ extractedData.deadlineDays = [defined |-> TRUE, days |-> 3]
   /\ result.score = C3_Round(Max(C3_Active(RED_KEYWORDS)))

\* keyword, urgency and neutralization of every highlight span, and of every
\* match of the collector
C4_Spans ==
   [ n \in 1..Len(highlight.spans) |->
        << highlight.spans[n].keyword, highlight.spans[n].urgency,
           highlight.spans[n].isNeutralized >> ]

C4_Matches ==
   [ n \in 1..Len(matches) |->
        << matches[n].keyword, getKeywordUrgency(matches[n].keyword),
           matches[n].isNeutralized >> ]

C4_Count(tuples, tuple) == Cardinality({ n \in 1..Len(tuples) : tuples[n] = tuple })

\* C4: for one text, the (keyword, urgency, isNeutralized) of the spans of
\* getHighlightSpans and of the matches collected by analyzeText are the same
\* multiset
C4_HighlighterAgrees ==
   pc = "analyzed" =>
      \A tuple \in { C4_Spans[n] : n \in 1..Len(C4_Spans) }
                      \cup { C4_Matches[n] : n \in 1..Len(C4_Matches) } :
         C4_Count(C4_Spans, tuple) = C4_Count(C4_Matches, tuple)

C5_Text ==
   "Betreff: Haftbefehl\n\nDies ist eine Aktennotiz zur Verfahrenskoordination, kein Handlungsbedarf."

\* C5 as stated: in the scenario text the subject keyword "haftbefehl" has
\* effective weight 30 and is not neutralized
C5_Original ==
   (pc = "analyzed" /\ text = C5_Text)
      => /\ Len(matches) > 0
         /\ matches[1].keyword = "haftbefehl"
         /\ matches[1].effectiveWeight = 30
         /\ ~matches[1].isNeutralized

\* C5 amended: in the scenario text the exclusion rule decides before the
\* informational rule, by the first pattern of the exclusion table that the
\* body matches, "Verfahrenskoordination" with 60%: effective weight 40 of 100,
\* not neutralized
C5_ExclusionScenario ==
   (pc = "analyzed" /\ text = C5_Text)
      => /\ Len(matches) > 0
         /\ matches[1].keyword = "haftbefehl"
         /\ matches[1].originalWeight = 100
         /\ matches[1].effectiveWeight = 40
         /\ ~matches[1].isNeutralized
         /\ matches[1].reason = "Betreff in Verwaltungskontext: \"Verfahrenskoordination\" (-60%)"

C5_Witness ==
   /\ pc = "analyzed" /\ text = C5_Text
   /\ FirstMatching(EXCLUSION_PATTERNS, toLowerCase(extractBetreffAndBody(text).body)) # 0
   /\ FirstMatching(INFORMATIONAL_MARKERS, toLowerCase(extractBetreffAndBody(text).body)) # 0
   /\ result.score = 40

\* C6: a text without any dictionary keyword is analyzed to category "unknown"
\* with score 0
C6_NoKeywordUnknown ==
   (pc = "analyzed" /\ Len(matches) = 0)
      => (result.category = "unknown" /\ result.score = 0)

\* C7: when every match found is neutralized, the category is "informational",
\* the score 0 whatever the deadline, the urgency green, and no match of the
\* result is active
C7_AllNeutralized ==
   (pc = "analyzed" /\ Len(matches) > 0 /\ \A n \in 1..Len(matches) : matches[n].isNeutralized)
      => /\ result.category = "informational"
         /\ result.score = 0
         /\ result.urgency = "green"
         /\ \A n \in 1..Len(result.matches) : result.matches[n].weight = 0

\* the scenario letter, analyzed with a deadline of three days
C7_Witness ==
   /\ pc = "analyzed"
   /\ text = "Die Zwangsvollstreckung wurde aufgehoben."
   /\ Len(matches) > 0 /\ \A n \in 1..Len(matches) : matches[n].isNeutralized
   /\ extractedData.deadlineDays = [defined |-> TRUE, days |-> 3]
   /\ result.score = 0

C8_Reductions == { 30, 40, 50, 60, 70, 90 }

\* the branches the statement of C8 lists
C8_Listed ==
   /\ pc = "evaluated"
   /\ \/ HasPrefix(evaluated.reason, "Nur zur Information")
      \/ HasPrefix(evaluated.reason, "Bedingt")
      \/ HasPrefix(evaluated.reason, "Betreff in Verwaltungskontext")

\* every branch that reduces a weight: those, and the informational marker in
\* the body of a letter with a subject line
C8_Mitigated ==
   C8_Listed \/ (pc = "evaluated" /\ HasPrefix(evaluated.reason, "Betreff zur Information"))

\* the effective weight is the integer nearest to baseWeight x (1 - r), for
\* the reduction r the reason names
C8_Nearest ==
   \E r \in C8_Reductions :
      /\ HasSuffix(evaluated.reason, Percent(r))
      /\ 100 * evaluated.effectiveWeight - evaluated.originalWeight * (100 - r) \in -50..50

\* C8 as stated: in the informational, conditional and subject-line exclusion
\* branches the effective weight is round(baseWeight x (1 - reduction)), the
\* keyword is not neutralized, and the effective weight is positive for the
\* base weights 1..100
C8_Original ==
   C8_Listed =>
      /\ ~evaluated.isNeutralized
      /\ C8_Nearest
      /\ evaluated.effectiveWeight > 0

\* C8 amended: in every mitigation branch the effective weight is
\* round(baseWeight x (1 - reduction)) and the keyword is not neutralized; the
\* effective weight is positive for the base weights 6..100
C8_Mitigation ==
   C8_Mitigated =>
      /\ ~evaluated.isNeutralized
      /\ C8_Nearest
      /\ evaluated.originalWeight >= 6 => evaluated.effectiveWeight > 0

\* the smallest base weight a 90% reduction leaves positive
C8_Witness ==
   /\ C8_Mitigated
   /\ evaluated.originalWeight = 6
   /\ HasSuffix(evaluated.reason, Percent(90))
   /\ evaluated.effectiveWeight = 1

C9_Consistent(m) ==
   /\ m.isNeutralized <=> m.effectiveWeight = 0
   /\ m.effectiveWeight >= 0
   /\ m.effectiveWeight <= m.originalWeight

\* the reductions of the three tables of mitigating patterns
C9_Reductions ==
   UNION { { table[n].reduction : n \in 1..Len(table) } :
              table \in { INFORMATIONAL_MARKERS, CONDITIONAL_MARKERS, EXCLUSION_PATTERNS } }

\* C9: for every evaluated dictionary keyword, of the sentence evaluator and of
\* the subject-line evaluator, isNeutralized holds exactly when the effective
\* weight is 0, and 0 <= effectiveWeight <= originalWeight; no reduction of a
\* table brings the weight of a dictionary keyword down to 0
C9_NeutralizedIffZero ==
   /\ pc = "evaluated" => C9_Consistent(evaluated)
   /\ pc = "analyzed" => \A n \in 1..Len(matches) : C9_Consistent(matches[n])
   /\ \A n \in 1..Len(ALL_KEYWORDS) : \A reduction \in C9_Reductions :
         reducedWeight(ALL_KEYWORDS[n].weight, reduction) \in 1..ALL_KEYWORDS[n].weight

\* a letter with a reduced subject keyword and a neutralized body keyword
C9_Witness ==
   /\ pc = "analyzed"
   /\ extractBetreffAndBody(text).found
   /\ \E n \in 1..Len(matches) :
         /\ HasPrefix(matches[n].reason, "Betreff")
         /\ matches[n].effectiveWeight > 0
         /\ matches[n].effectiveWeight < matches[n].originalWeight
   /\ \E n \in 1..Len(matches) : matches[n].isNeutralized /\ matches[n].effectiveWeight = 0

C10_Order == << "enforcement", "final_notice", "payment_reminder", "informational", "unknown" >>

\* sum of the effective weights of the non-neutralized matches of a category
\* among the first n matches
RECURSIVE C10_Sum(_, _)
C10_Sum(category, n) ==
   IF n = 0 THEN 0
   ELSE (IF ~matches[n].isNeutralized /\ matches[n].category = category
         THEN matches[n].effectiveWeight ELSE 0) + C10_Sum(category, n - 1)

C10_Total(k) == C10_Sum(C10_Order[k], Len(matches))

\* C10: when at least one match is not neutralized, the category is the one
\* with the largest sum of effective weights over the non-neutralized matches,
\* and of several with that sum the first in the order enforcement,
\* final_notice, payment_reminder, informational, unknown
C10_LargestSum ==
   (pc = "analyzed" /\ \E n \in 1..Len(matches) : ~matches[n].isNeutralized)
      => \E k \in 1..Len(C10_Order) :
            /\ result.category = C10_Order[k]
            /\ \A j \in 1..Len(C10_Order) : C10_Total(j) <= C10_Total(k)
            /\ \A j \in 1..(k - 1) : C10_Total(j) < C10_Total(k)

\* two categories share the largest sum
C10_Witness ==
   /\ pc = "analyzed"
   /\ \E k \in 1..Len(C10_Order) :
         /\ C10_Total(k) > 0
         /\ \A j \in 1..Len(C10_Order) : C10_Total(j) <= C10_Total(k)
         /\ \E j \in (k + 1)..Len(C10_Order) : C10_Total(j) = C10_Total(k)
         /\ result.category = C10_Order[k]

\* the deadline d2 is not nearer than d1 (an unknown deadline is the farthest)
C11_NotNearer(d1, d2) == ~d2.defined \/ (d1.defined /\ d1.days <= d2.days)

\* the multiplier, in hundredths, as C11 lists it
C11_Multiplier(d) ==
   IF d.defined /\ d.days <= 3 THEN 150
   ELSE IF d.defined /\ d.days <= 7 THEN 125
   ELSE IF d.defined /\ d.days <= 14 THEN 110
   ELSE 100

\* C11: for fixed matches with an active red keyword the score does not grow
\* when deadlineDays grows (multiplier 1.5 up to 3 days, 1.25 up to 7, 1.1 up
\* to 14, 1.0 beyond or unknown) and is at most 100; for matches whose active
\* ones are all green the score is the same for every deadlineDays
C11_DeadlineMonotone ==
   pc = "analyzed" =>
      /\ getDeadlineMultiplier(extractedData.deadlineDays)
            = C11_Multiplier(extractedData.deadlineDays)
      /\ C3_Active(RED_KEYWORDS) # {}
            => /\ result.score <= 100
               /\ \A d \in AggregatorDeadlines :
                     /\ C11_NotNearer(extractedData.deadlineDays, d)
                           => calculateScoreWithContext(matches, d) <= result.score
                     /\ C11_NotNearer(d, extractedData.deadlineDays)
                           => calculateScoreWithContext(matches, d) >= result.score
      /\ (C3_Active(RED_KEYWORDS) = {} /\ C3_Active(YELLOW_KEYWORDS) = {}
             /\ C3_Active(GREEN_KEYWORDS) # {})
            => \A d \in AggregatorDeadlines :
                  calculateScoreWithContext(matches, d) = result.score

\* an active red keyword whose score under three days lies below the cap and
\* above its scores under ten days and under an unknown deadline
C11_Witness ==
   /\ pc = "analyzed"
   /\ C3_Active(RED_KEYWORDS) # {}
   /\ extractedData.deadlineDays = [ defined |-> TRUE, days |-> 3 ]
   /\ result.score < 100
   /\ calculateScoreWithContext(matches, [ defined |-> TRUE, days |-> 8 ]) < result.score
   /\ calculateScoreWithContext(matches, [ defined |-> FALSE ])
         < calculateScoreWithContext(matches, [ defined |-> TRUE, days |-> 8 ])

C12_Text == "Es droht eine Pfändung Ihres Kontos. Reagieren Sie innerhalb von 3 Tagen."

C12_ActiveRed ==
   { n \in 1..Len(matches) :
        ~matches[n].isNeutralized /\ IsKeywordOf(RED_KEYWORDS, matches[n].keyword) }

\* C12: for the letter "Es droht eine Pfändung Ihres Kontos. Reagieren Sie
\* innerhalb von 3 Tagen." extractData then analyzeText give exactly one
\* active red match, of weight 90, deadlineDays 3, score 100, urgency red and
\* category "enforcement"
C12_PfaendungScenario ==
   (pc = "analyzed" /\ text = C12_Text)
      => /\ extractedData.deadlineDays = [ defined |-> TRUE, days |-> 3 ]
         /\ Cardinality(C12_ActiveRed) = 1
         /\ \A n \in C12_ActiveRed : matches[n].effectiveWeight = 90
         /\ result.score = 100
         /\ result.urgency = "red"
         /\ result.category = "enforcement"

\* 0-based index of the token in which the first occurrence of the evaluated
\* keyword in the sentence starts
C13_OccurrenceToken(lowerSentence) ==
   Len(SplitWhitespace(SubSeq(lowerSentence, 1,
                              IndexOf(lowerSentence, evaluated.keyword, 0) + 1), 1)) - 1

\* the 5 tokens before that token to the 5 tokens after the keyword's last
\* token, clamped to the sentence
C13_Window ==
   getContextWindow(tokenize(text), C13_OccurrenceToken(toLowerCase(text)),
                    Len(SplitWhitespace(evaluated.keyword, 1)))

C13_Rules(negator, rejection, conditional, verb, informational) ==
   /\ HasPrefix(evaluated.reason, "Negiert durch") => negator
   /\ HasPrefix(evaluated.reason, "Abgelehnt") => rejection
   /\ HasPrefix(evaluated.reason, "Bedingt") => conditional
   /\ (~negator /\ ~rejection /\ ~conditional /\ ~verb /\ ~informational)
         => evaluated.effectiveWeight = evaluated.originalWeight

\* C13: a strong negator, a rejection or a conditional pattern decides on a
\* keyword only when it lies within the 5 tokens before the token in which
\* the keyword occurrence starts to the 5 tokens after the keyword's last
\* token; with no such pattern in that window and no cancellation verb or
\* informational marker in the sentence the keyword keeps its base weight
C13_WindowOnly ==
   pc = "evaluated" =>
      C13_Rules(FirstMatching(STRONG_NEGATORS, C13_Window) # 0,
                FirstMatching(REJECTION_PATTERNS, C13_Window) # 0,
                FirstMatching(CONDITIONAL_MARKERS, C13_Window) # 0,
                FirstMatching(CANCELLATION_VERBS, toLowerCase(text)) # 0,
                FirstMatching(INFORMATIONAL_MARKERS, toLowerCase(text)) # 0)

\* a body sentence holds both the keyword and a pattern of the table
C14_InOneSentence(patterns, sentences, keyword) ==
   \E n \in 1..Len(sentences) :
      /\ Includes(toLowerCase(sentences[n]), keyword)
      /\ FirstMatching(patterns, toLowerCase(sentences[n])) # 0

C14_Voided(sentences, keyword) ==
   \/ C14_InOneSentence(CANCELLATION_VERBS, sentences, keyword)
   \/ C14_InOneSentence(STRONG_NEGATORS, sentences, keyword)
   \/ C14_InOneSentence(REJECTION_PATTERNS, sentences, keyword)

\* the matches of subject-line keywords are those whose reason begins "Betreff"
C14_SubjectMatches == { n \in 1..Len(matches) : HasPrefix(matches[n].reason, "Betreff") }

C14_Neutralized(sentences) ==
   \A n \in C14_SubjectMatches :
      C14_Voided(sentences, matches[n].keyword)
         => (matches[n].effectiveWeight = 0 /\ matches[n].isNeutralized)

\* C14: in a text with a subject line holding keyword K, when a body sentence
\* holds both K and a cancellation verb (or K and a strong negator, or K and a
\* rejection pattern), the match of K in the subject line has effective weight
\* 0 and is neutralized, whatever exclusion pattern or informational marker
\* the body holds
C14_BodyVoidsSubject ==
   (pc = "analyzed" /\ C14_SubjectMatches # {})
      => C14_Neutralized(splitIntoSentences(extractBetreffAndBody(text).body))

\* the subject keyword cancelled in one body sentence, an informational marker
\* in another
C14_Witness ==
   /\ pc = "analyzed"
   /\ text = "Betreff: Haftbefehl\nZur Kenntnis. Der Haftbefehl wurde aufgehoben."
   /\ FirstMatching(INFORMATIONAL_MARKERS, toLowerCase(extractBetreffAndBody(text).body)) # 0
   /\ HasPrefix(matches[1].reason, "Betreff-Keyword im Body aufgehoben")
   /\ matches[1].isNeutralized

\* the subject patterns that match somewhere in the text
C15_Kinds(t) == { marker \in {"betreff", "betr.", "bezug"} : BetreffMatch(t, marker).found }

\* the extraction by the pattern of the highest priority among those that match
C15_ByPriority(t) ==
   IF BetreffMatch(t, "betreff").found THEN ExtractionOf(t, BetreffMatch(t, "betreff"))
   ELSE IF BetreffMatch(t, "betr.").found THEN ExtractionOf(t, BetreffMatch(t, "betr."))
   ELSE IF BetreffMatch(t, "bezug").found THEN ExtractionOf(t, BetreffMatch(t, "bezug"))
   ELSE [ found |-> FALSE ]

C15_Selected(extraction) ==
   /\ matches = CollectMatches(text, extraction)
   /\ highlight = HighlightResult(SortByStart(SkipProcessed(VisitedSpans(text, extraction), 1, {})))

\* the subject line a highlighted span was cut from
C15_SpanSubject(span) == Substring(span.sentenceContext, Len("Betreff: "), Len(span.sentenceContext))

\* every subject-line match of the engine has a span of the highlighter with
\* the same keyword, the same subject line and the same verdict from the body
C15_SameSelection ==
   \A n \in 1..Len(matches) :
      HasPrefix(matches[n].reason, "Betreff")
         => \E k \in 1..Len(highlight.spans) :
               /\ highlight.spans[k].keyword = matches[n].keyword
               /\ highlight.spans[k].reason = matches[n].reason
               /\ HasPrefix(highlight.spans[k].sentenceContext, "Betreff: ")
               /\ matches[n].context
                     = "Betreff: " \o Substring(C15_SpanSubject(highlight.spans[k]), 0, 50) \o "..."

\* C15: when the text holds candidate subject lines of several kinds, the
\* line is chosen by the priority of the patterns (Betreff, then Betr., then
\* Bezug) and not by position; the scoring engine and the highlighter select
\* the same subject line and the same body
C15_PatternPriority ==
   pc = "analyzed"
      => /\ C15_SameSelection
         /\ Cardinality(C15_Kinds(text)) >= 2 => C15_Selected(C15_ByPriority(text))

\* a Bezug line stands before the Betreff line, and the Betreff line is taken
C15_Witness ==
   /\ pc = "analyzed"
   /\ text = "Bezug: Frist\nBetreff: Haftbefehl\nGuten Tag"
   /\ BetreffMatch(text, "bezug").index < BetreffMatch(text, "betreff").index
   /\ matches[1].keyword = "haftbefehl"
   /\ matches[1].context = "Betreff: Haftbefehl..."
   /\ \E k \in 1..Len(highlight.spans) : highlight.spans[k].sentenceContext = "Betreff: Haftbefehl"

\* a subject marker with its colon stands at the start of a line of the
\* lowered text
C16_MarkerAtLineStart(lowerText) ==
   \E i \in 1..Len(lowerText) :
      /\ i = 1 \/ Ch(lowerText, i - 1) = "\n"
      /\ \E marker \in {"betreff:", "betr.:", "bezug:"} : StartsAt(lowerText, i, marker)

\* C16: a subject line is detected only when "Betreff:", "Betr.:" or "Bezug:"
\* (in any letter case) stands at the start of a line; a text where such a
\* word stands only inside a line or inside a longer word is processed as a
\* text without subject line, every sentence by the sentence evaluator
C16_LineStartOnly ==
   (pc = "analyzed" /\ ~C16_MarkerAtLineStart(toLowerCase(text)))
      => matches = MatchesOfSentences(splitIntoSentences(text), 1)

\* the context units of the text: the sentences of the body when a subject
\* line is detected, of the whole text otherwise
C17_Units(extraction) ==
   IF extraction.found THEN splitIntoSentences(extraction.body) ELSE splitIntoSentences(text)

\* the pairs << unit, dictionary entry >> in unit order, then dictionary order
C17_AllPairs(units) ==
   [ n \in 1..(Len(units) * Len(ALL_KEYWORDS)) |->
        << ((n - 1) \div Len(ALL_KEYWORDS)) + 1, ((n - 1) % Len(ALL_KEYWORDS)) + 1 >> ]

\* those whose keyword is contained in the unit, letter case ignored
C17_Pairs(units) ==
   SelectSeq(C17_AllPairs(units),
             LAMBDA p : Includes(toLowerCase(units[p[1]]), ALL_KEYWORDS[p[2]].keyword))

\* the dictionary entries whose keyword the subject line contains
C17_SubjectEntries(extraction) ==
   IF extraction.found
   THEN SelectSeq([ n \in 1..Len(ALL_KEYWORDS) |-> n ],
                  LAMBDA d : Includes(toLowerCase(extraction.betreff), ALL_KEYWORDS[d].keyword))
   ELSE << >>

\* the match of a pair: the keyword evaluated against the unit of the pair
C17_OwnUnit(unit, def) ==
   ExtendedKeywordMatch(evaluateKeywordInContext(unit, def.keyword, def.category, def.weight))

C17_OnePerPair(units, pairs, subject) ==
   /\ Len(matches) = Len(subject) + Len(pairs)
   /\ \A n \in 1..Len(subject) :
         /\ matches[n].keyword = ALL_KEYWORDS[subject[n]].keyword
         /\ HasPrefix(matches[n].reason, "Betreff")
   /\ \A n \in 1..Len(pairs) :
         matches[Len(subject) + n] = C17_OwnUnit(units[pairs[n][1]], ALL_KEYWORDS[pairs[n][2]])

C17_Collected(units, extraction) ==
   C17_OnePerPair(units, C17_Pairs(units), C17_SubjectEntries(extraction))

\* an active match contributes: the score is positive and the category is
\* one whose active weights sum to no less than those of the match's category
C17_ActiveSum(category) ==
   SumOfCategory(SelectSeq(matches, LAMBDA m : ~m.isNeutralized), category, 1)

C17_Contributes(match) ==
   /\ result.score > 0
   /\ C17_ActiveSum(result.category) >= C17_ActiveSum(match.category)
   /\ C17_ActiveSum(match.category) >= match.effectiveWeight
   /\ match.effectiveWeight > 0

C17_BothKept ==
   \A n \in 1..Len(matches) : \A k \in 1..Len(matches) :
      (matches[n].keyword = matches[k].keyword /\ matches[n].isNeutralized
          /\ ~matches[k].isNeutralized)
         => C17_Contributes(matches[k])

\* C17: the collector returns exactly one match for every pair of a context
\* unit and a dictionary keyword contained in it (letter case ignored), after
\* one match for every keyword of the subject line; nothing is merged across
\* units, each match is evaluated against its own unit only, and a keyword
\* neutralized in one sentence and active in another has both matches, the
\* active one counting for score and category
C17_OneMatchPerUnitAndKeyword ==
   pc = "analyzed"
      => /\ C17_Collected(C17_Units(extractBetreffAndBody(text)), extractBetreffAndBody(text))
         /\ C17_BothKept

\* one keyword cancelled in the first sentence and active in the second
C17_Witness ==
   /\ pc = "analyzed"
   /\ text = "Der Haftbefehl wurde aufgehoben. Es besteht ein Haftbefehl."
   /\ Len(matches) = 2
   /\ matches[1].keyword = "haftbefehl" /\ matches[1].isNeutralized
   /\ matches[2].keyword = "haftbefehl" /\ ~matches[2].isNeutralized
   /\ result.category = "enforcement"
   /\ result.score >= 90

\* the 1-based positions where the text reads "<clause A> <conj> <clause B>":
\* a contrastive conjunction between two blanks, clause A not closed by a
\* sentence mark
C18_Conjunctions(t, ls) ==
   { i \in 3..Len(t) :
        /\ ConjunctionAt(ls, i) # {}
        /\ Ch(t, i - 1) = " "
        /\ Ch(t, i - 2) \notin {".", "!", "?", ";", "\n"}
        /\ \E c \in ConjunctionAt(ls, i) : i + Len(c) <= Len(t) /\ Ch(t, i + Len(c)) = " " }

\* the matches of clause A and of clause B, each collected from the clause alone
C18_ClauseA(t, i) == MatchesOfSentences(splitIntoSentences(SubSeq(t, 1, i - 2)), 1)

C18_ClauseB(t, i) == MatchesOfSentences(splitIntoSentences(SubSeq(t, i, Len(t))), 1)

C18_Separate(t, positions) ==
   \A i \in positions : matches = C18_ClauseA(t, i) \o C18_ClauseB(t, i)

\* C18: in a text "<clause A> <conj> <clause B>" with conj one of aber,
\* jedoch, allerdings, dennoch, trotzdem, the two clauses are evaluated as
\* separate units: the matches of the keywords of B are those B gives alone,
\* whatever negator, cancellation, rejection or mitigation stands in A, and
\* the matches of A are those A gives alone
C18_ContrastiveClauses ==
   (pc = "analyzed" /\ ~extractBetreffAndBody(text).found)
      => C18_Separate(text, C18_Conjunctions(text, toLowerCase(text)))

\* the cancellation verb stands in clause A only, the keyword of clause B
\* keeps its weight
C18_Witness ==
   /\ pc = "analyzed"
   /\ text = "aufgehoben aber haftbefehl"
   /\ C18_Conjunctions(text, toLowerCase(text)) = {12}
   /\ Len(matches) = 1
   /\ matches[1].keyword = "haftbefehl"
   /\ ~matches[1].isNeutralized
   /\ matches[1].effectiveWeight = matches[1].originalWeight

\* the text holds a sentence delimiter: a sentence mark followed by
\* whitespace, or a blank line
C19_HasDelimiter(t) ==
   \E i \in 1..(Len(t) - 1) :
      \/ Ch(t, i) \in {".", "!", "?", ";"} /\ IsSpace(Ch(t, i + 1))
      \/ Ch(t, i) = "\n" /\ Ch(t, i + 1) = "\n"

C19_HasConjunction(ls) == \E i \in 1..Len(ls) : ConjunctionAt(ls, i) # {}

C19_Undivided(t) == ~C19_HasDelimiter(t) /\ ~C19_HasConjunction(toLowerCase(t))

C19_UnitsWellFormed(sentences) ==
   \A n \in 1..Len(sentences) : Len(sentences[n]) > 0 /\ trim(sentences[n]) = sentences[n]

C19_Stable == pc = "resplit" => evaluated.sentences = << evaluated.sentence >>

\* C19 as stated: a text with no sentence delimiter and no contrastive
\* conjunction is returned as one unit, the trimmed text; every unit is
\* trimmed, non-empty and comes back unchanged as the only unit when split
\* again
C19_Original ==
   /\ (pc = "split" /\ C19_Undivided(text)) => result.sentences = << trim(text) >>
   /\ pc = "split" => C19_UnitsWellFormed(result.sentences)
   /\ C19_Stable

\* C19: a text with no sentence delimiter and no contrastive conjunction is
\* returned as one unit, the trimmed text, when it holds a character that is
\* not whitespace, and as no unit at all when it is empty or only whitespace;
\* every unit is trimmed, non-empty and comes back unchanged as the only unit
\* when split again
C19_SingleUnit ==
   /\ (pc = "split" /\ C19_Undivided(text))
         => result.sentences = (IF trim(text) = "" THEN << >> ELSE << trim(text) >>)
   /\ pc = "split" => C19_UnitsWellFormed(result.sentences)
   /\ C19_Stable

\* an undivided text with blanks around it is returned trimmed as one unit,
\* and that unit is split again
C19_Witness ==
   /\ pc = "resplit"
   /\ text = " x "
   /\ C19_Undivided(text)
   /\ result.sentences = << "x" >>
   /\ evaluated.sentence = "x"
   /\ evaluated.sentences = << "x" >>

\* every field of the ScoringResult has a value of its type
C20_Defined(r, collected) ==
   /\ r.urgency \in {"red", "yellow", "green"}
   /\ r.score \in 0..100
   /\ \E n \in 1..Len(LetterCategories) : r.category = LetterCategories[n]
   /\ r.categoryLabel = CATEGORY_LABELS[r.category] /\ Len(r.categoryLabel) > 0
   /\ Len(r.summary) > 0
   /\ Len(r.recommendations) > 0
   /\ Len(r.matches) = Len(collected)

\* C20: analyzeText is total: for every text (the empty text, whitespace
\* alone, a subject line with an empty body, an empty subject line) and every
\* deadlineDays (undefined, 0, negative) the call returns, and the result has
\* a defined urgency, score, category, label, summary and recommendation list
C20_Total ==
   /\ pc = "extracted"
         => C20_Defined(analyzeText(text, extractedData), findKeywordMatchesWithContext(text))
   /\ pc = "analyzed" => C20_Defined(result, matches)

\* the empty text with a negative deadlineDays has been analyzed
C20_Witness ==
   /\ pc = "analyzed"
   /\ text = ""
   /\ extractedData.deadlineDays = [ defined |-> TRUE, days |-> -1 ]
   /\ result.urgency = "green"
   /\ result.score = 0
   /\ result.category = "informational"

\* what a call returns, from its arguments alone
C21_FromArguments(call) ==
   IF call.fn = "splitIntoSentences" THEN [ sentences |-> splitIntoSentences(call.text) ]
   ELSE IF call.fn = "analyzeText" THEN analyzeText(call.text, [ deadlineDays |-> call.deadlineDays ])
   ELSE getHighlightSpans(call.text)

C21_SameArguments(a, b) ==
   a.fn = b.fn /\ a.text = b.text /\ a.deadlineDays = b.deadlineDays

C22_Verdict(t, validation) ==
   /\ validation.isValidLetter = (Len(normalizeText(t)) >= 20)
   /\ validation.message.present = ~validation.isValidLetter
   /\ validation.text = normalizeText(t)

\* C22: validateLetter returns isValidLetter = false with a message exactly
\* when the normalized text has fewer than 20 characters; in every input
\* flow of the page a text that failed validation sets the validation error
\* and reaches neither the preview nor the analysis
C22_ValidationGate ==
   pc = "page"
      => /\ \A t \in PageTexts : C22_Verdict(t, validateLetter(t))
         /\ page.last = "validationFailed"
               => /\ page.validationError.present
                  /\ ~page.previewText.present
                  /\ ~page.analysisResult.present
         /\ page.previewText.present => Len(page.previewText.value) >= 20
         /\ page.analysisResult.present => Len(page.analysisResult.value.rawText) >= 20

\* a typed text of 22 characters that the normalization shortens to 17 has
\* failed validation
C22_Witness ==
   /\ pc = "page"
   /\ page.last = "validationFailed"
   /\ page.inputMode = "text"
   /\ page.textInput = "Mahn ung   zur   Frist"
   /\ page.validationError = Present("Dokument zu kurz für automatische Analyse.")
   /\ ~page.analysisResult.present

\* the spans both loops of getHighlightSpans visit on the text, before the filter
C23_Visited == VisitedSpans(text, extractBetreffAndBody(text))

C23_Range(span) == << span.start, span.end >>

C23_UniqueRanges(spans) ==
   \A i, j \in 1..Len(spans) : i # j => C23_Range(spans[i]) # C23_Range(spans[j])

\* of every range visited, the span visited first is among the spans, so a
\* span is lost only to an earlier one of the very same range
C23_FirstKept(visited, spans) ==
   \A n \in 1..Len(visited) :
      (\A m \in 1..(n - 1) : C23_Range(visited[m]) # C23_Range(visited[n]))
         => \E k \in 1..Len(spans) : spans[k] = visited[n]

C23_Ascending(spans) == \A i, j \in 1..Len(spans) : i < j => spans[i].start <= spans[j].start

C23_Counted(r) ==
   r.activeCount.red + r.activeCount.yellow + r.activeCount.green + r.neutralizedCount
      = Len(r.spans)

\* C23: in the result of getHighlightSpans no two spans have the same
\* (start, end); every range visited keeps its span, so spans of different
\* keywords with different, even overlapping, ranges are both present; the
\* spans are in ascending order of start; the three active counts and the
\* neutralized count add up to the number of spans
C23_SpanList ==
   pc = "highlighted"
      => /\ C23_UniqueRanges(highlight.spans)
         /\ C23_FirstKept(C23_Visited, highlight.spans)
         /\ C23_Ascending(highlight.spans)
         /\ C23_Counted(highlight)

\* "vollstreckung" inside "zwangsvollstreckung": both spans are present
C23_Witness ==
   /\ pc = "highlighted"
   /\ text = "Die Zwangsvollstreckung wurde aufgehoben."
   /\ \E i, j \in 1..Len(highlight.spans) :
         /\ highlight.spans[i].keyword = "zwangsvollstreckung"
         /\ C23_Range(highlight.spans[i]) = << 4, 23 >>
         /\ highlight.spans[j].keyword = "vollstreckung"
         /\ C23_Range(highlight.spans[j]) = << 10, 23 >>
         /\ i < j

C24_Stored == loadHistory(history.stored)

\* newest first: the timestamps fall from the first entry to the last
C24_NewestFirst(entries) ==
   \A i, j \in 1..Len(entries) : i < j => entries[i].timestamp > entries[j].timestamp

\* what saveHistoryEntry leaves: the new entry, then the entries stored
\* before without the oldest when there were 20 of them
C24_Saved(before, entry, after) ==
   /\ after[1] = entry
   /\ Len(after) = Min({ Len(before) + 1, 20 })
   /\ \A n \in 2..Len(after) : after[n] = before[n - 1]

\* what deleteHistoryEntry leaves: the entries with another id, in their order
C24_Deleted(before, id, after) ==
   /\ \A n \in 1..Len(after) : after[n].id # id
   /\ after = SelectSeq(before, LAMBDA e : e.id # id)
   /\ Len(after) = Cardinality({ n \in 1..Len(before) : before[n].id # id })

C25_ActiveOf(tier) ==
   { n \in 1..Len(matches) : ~matches[n].isNeutralized /\ IsKeywordOf(tier, matches[n].keyword) }

\* C25: the urgency never exceeds the tier of the active keywords: red
\* (score >= 80) only with an active red keyword, yellow (score >= 40) only
\* with an active red or yellow keyword; when every active match is green
\* the urgency is green
C25_TierBound ==
   pc = "analyzed"
      => /\ result.urgency = "red" <=> result.score >= 80
         /\ result.urgency = "yellow" <=> (result.score >= 40 /\ result.score < 80)
         /\ result.urgency = "red" => C25_ActiveOf(RED_KEYWORDS) # {}
         /\ result.urgency = "yellow"
               => C25_ActiveOf(RED_KEYWORDS) \cup C25_ActiveOf(YELLOW_KEYWORDS) # {}
         /\ (C25_ActiveOf(RED_KEYWORDS) = {} /\ C25_ActiveOf(YELLOW_KEYWORDS) = {})
               => result.urgency = "green"

\* an active yellow keyword whose weight times the multiplier passes 80 is
\* held at 79: the urgency is yellow
C25_Witness ==
   /\ pc = "analyzed"
   /\ C25_ActiveOf(RED_KEYWORDS) = {}
   /\ \E n \in C25_ActiveOf(YELLOW_KEYWORDS) :
         RoundTimes(matches[n].effectiveWeight,
                    getDeadlineMultiplier(extractedData.deadlineDays)) >= 80
   /\ result.score = 79
   /\ result.urgency = "yellow"

\* the body of the letter mentions the keyword
C26_BodyMentions(body, keyword) == Includes(toLowerCase(body), toLowerCase(keyword))

\* the weights an exclusion pattern or an informational marker leaves of a weight
C26_Reduced(originalWeight) ==
   { reducedWeight(originalWeight, EXCLUSION_PATTERNS[k].reduction) :
        k \in 1..Len(EXCLUSION_PATTERNS) }
      \cup { reducedWeight(originalWeight, INFORMATIONAL_MARKERS[k].reduction) :
                k \in 1..Len(INFORMATIONAL_MARKERS) }

\* the body holds a negator, a cancellation verb or a rejection pattern
C26_BodyVoids(body) ==
   \/ FirstMatching(STRONG_NEGATORS, toLowerCase(body)) # 0
   \/ FirstMatching(CANCELLATION_VERBS, toLowerCase(body)) # 0
   \/ FirstMatching(REJECTION_PATTERNS, toLowerCase(body)) # 0

C26_Kept(m) ==
   /\ ~m.isNeutralized
   /\ m.effectiveWeight > 0
   /\ m.effectiveWeight \in { m.originalWeight } \cup C26_Reduced(m.originalWeight)
   /\ \/ HasPrefix(m.reason, "Betreff: Keine neutralisierende Kontext im Body")
      \/ HasPrefix(m.reason, "Betreff in Verwaltungskontext")
      \/ HasPrefix(m.reason, "Betreff zur Information")

C27_SelfNegating ==
   { def \in { GREEN_KEYWORDS[n] : n \in 1..Len(GREEN_KEYWORDS) } :
        def.keyword \in { "erledigt", "abgeschlossen", "keine weiteren schritte" } }

\* the keyword stands in the sentence as a whole word
C27_WholeWord(sentence, keyword) ==
   \E i \in 1..Len(sentence) :
      /\ StartsAt(toLowerCase(sentence), i, keyword)
      /\ WordBoundary(sentence, i)
      /\ WordBoundary(sentence, i + Len(keyword))

C27_Void(e) == e.effectiveWeight = 0 /\ e.isNeutralized

\* the sentences the collector evaluates apart from the subject line
C27_BodySentences(extraction) ==
   splitIntoSentences(IF extraction.found THEN extraction.body ELSE text)

C27_VoidIn(sentences) ==
   \A n \in 1..Len(sentences) : \A def \in C27_SelfNegating :
      C27_WholeWord(sentences[n], def.keyword)
         => C27_Void(evaluateKeywordInContext(sentences[n], def.keyword, def.category,
                                              def.weight))

\* C27: every whole-word occurrence of "erledigt", "abgeschlossen" or "keine
\* weiteren schritte" in a body sentence is evaluated with effective weight 0
\* and neutralized, so that no collected match of these keywords from a body
\* sentence is active
C27_SelfNeutralizing ==
   pc = "analyzed"
      => /\ C27_VoidIn(C27_BodySentences(extractBetreffAndBody(text)))
         /\ \A n \in 1..Len(matches) :
               (/\ \E def \in C27_SelfNegating : def.keyword = matches[n].keyword
                /\ ~HasPrefix(matches[n].reason, "Betreff")
                /\ \E k \in 1..Len(C27_BodySentences(extractBetreffAndBody(text))) :
                      C27_WholeWord(C27_BodySentences(extractBetreffAndBody(text))[k],
                                    matches[n].keyword))
                  => C27_Void(matches[n])

RECURSIVE C28_Shown(_, _)
\* the text the elements show, from the n-th on
C28_Shown(elements, n) ==
   IF n > Len(elements) THEN "" ELSE elements[n].content \o C28_Shown(elements, n + 1)

\* C28: for every text and every setting of the two filters the rendered
\* elements, put together in their order, are the text: no character is
\* dropped and none is shown twice, also when spans overlap
C28_Faithful == pc = "preview" => C28_Shown(preview.elements, 1) = preview.text

\* C29: the camera hook leaks no running stream: once stopCamera or the
\* unmount has run as the last of the calls and no startCamera is pending,
\* every stream the hook obtained is stopped; and while isActive is false no
\* obtained stream is running
C29_NoLeak ==
   pc = "camera"
      => /\ (camera.last \in { "stopCamera", "unmount" } /\ camera.pending = {})
               => camera.running = {}
         /\ ~camera.isActive => camera.running = {}

\* the progress values set since the run began never decrease
C30_Rising(reports) == \A i, j \in 1..Len(reports) : i < j => reports[i] <= reports[j]

\* C30: within a run of extractText the progress set while the run lasts
\* never decreases and is within 0..100, and isProcessing is true until the
\* run ends; a run that succeeds ends with isProcessing = false, progress =
\* 100, error = null; a run that fails (conversion, OCR, no pages) ends with
\* isProcessing = false, progress = 0, an error message, and rejects with the
\* error it caught
C30_Progress ==
   pc = "pdf"
      => /\ pdf.state.progress \in 0..100
         /\ C30_Rising(pdf.reports)
         /\ pdf.stage # "idle" => (pdf.state.isProcessing /\ pdf.state.error = Absent)
         /\ pdf.outcome.kind = "resolved"
               => (/\ ~pdf.state.isProcessing
                   /\ pdf.state.progress = 100
                   /\ pdf.state.error = Absent)
         /\ pdf.outcome.kind = "rejected"
               => (/\ ~pdf.state.isProcessing
                   /\ pdf.state.progress = 0
                   /\ pdf.state.error.present
                   /\ pdf.state.error.value # ""
                   /\ pdf.outcome.thrown.isError => pdf.state.error.value = pdf.outcome.thrown.message)

\* a run over three pages ends well after the progress went from the
\* conversion (at most 25) over 50 up to 100
C30_Witness ==
   /\ pc = "pdf"
   /\ pdf.outcome.kind = "resolved"
   /\ pdf.totalPages = 3
   /\ pdf.images = 3
   /\ pdf.reports = << 0, 0, 3, 5, 12, 19, 25, 50, 67, 84, 100, 100 >>
====
